---- MODULE Spec2Model ----
(***************************************************************************)
(* A state-machine model of the TON 618 black-hole visualisation           *)
(* (etelford32/ton618): the App shell that mounts one of the simulations,  *)
(* Simulation1's accretion disk / jet loop, Simulation3's observatory loop *)
(* with the tidal-disruption star, its debris, the Hawking-radiation pool  *)
(* and the companion star.                                                 *)
(*                                                                         *)
(* Numbers.  The program computes in IEEE doubles; the model computes in   *)
(* integers that fit 32 bits.  Time steps are in milliseconds.  In the     *)
(* accretion disk lengths are in micro-units, radial velocities in         *)
(* milli-units per second and accelerations in units per second squared,   *)
(* so that v += a*dt and r += v*dt need no rescaling.  The star and its    *)
(* debris move on the line through the black hole (the y axis of the       *)
(* program is never populated for them, and inputs are drawn collinear),   *)
(* with positions in units and velocities in units per second.  Divisions  *)
(* truncate toward zero.  A double that may be non-finite carries a tag.    *)
(***************************************************************************)
EXTENDS Integers, Sequences, FiniteSets, TLC

VARIABLES
    activeSimulation,   \* App: which simulation component is mounted
    isPlaying,          \* the mounted component's isPlaying state
    params,             \* the mounted component's params state
    frame,              \* animation frames run since the effect last ran
    threw,              \* the last animate() call ended in an uncaught TypeError
    diskData,           \* accretion disk pool of the mounted simulation
    launchedParticles,  \* Simulation1: jet particles in flight
    particleTrails,     \* Simulation1: trails, each naming its particle
    launchCounter,      \* Simulation1: launches since the effect last ran
    maxAccel,           \* maxAccelMagnitude the last first pass found
    adaptiveDt,         \* time step the last disk integration used (ms)
    companionStar,      \* CompanionStar instance, or "null"
    star,               \* Star instance (tidal disruption event), or "null"
    debris,             \* StellarDebris instance, or "null"
    hawkingRadiation,   \* HawkingRadiation instance, or "null"
    jetParticles,       \* Simulation2: the effect's jetParticles array
    accretionTrails,    \* Simulation2: the effect's accretionTrails array
    particlesAccreted,  \* Simulation2: the effect's accretion counter
    jetsLaunched,       \* Simulation2: the effect's launch counter
    jetParticlesRef,    \* Simulation2: the array jetParticlesRef.current is
    accretionTrailsRef, \* Simulation2: the array accretionTrailsRef.current is
    stats,              \* Simulation2: the stats state the panel shows
    animationRef,       \* animationRef.current: a request handle, 0 for null
    scheduled,          \* the browser's pending animation frame requests
    requestId           \* the last handle requestAnimationFrame returned

simulation2Vars ==
    <<jetParticles, accretionTrails, particlesAccreted, jetsLaunched,
      jetParticlesRef, accretionTrailsRef, stats>>

schedulerVars == <<animationRef, scheduled, requestId>>

vars == <<activeSimulation, isPlaying, params, frame, threw, diskData,
          launchedParticles, particleTrails, launchCounter, maxAccel,
          adaptiveDt, companionStar, star, debris, hawkingRadiation,
          simulation2Vars, schedulerVars>>

\* a ref whose current is the array the effect created and works on
EffectArray == [isEffectArray |-> TRUE, items |-> <<>>]

\* Simulation2 is not mounted
NoSimulation2 ==
    /\ jetParticles = <<>>
    /\ accretionTrails = <<>>
    /\ particlesAccreted = 0
    /\ jetsLaunched = 0
    /\ jetParticlesRef = EffectArray
    /\ accretionTrailsRef = EffectArray
    /\ stats = [particlesAccreted |-> 0, jetsLaunched |-> 0]

\* the animation frame requests are left out of account
NoScheduler ==
    /\ animationRef = 0
    /\ scheduled = {}
    /\ requestId = 0

----------------------------------------------------------------------------
(* Arithmetic of the doubles, on integers *)

Abs(x) == IF x < 0 THEN -x ELSE x

Min(a, b) == IF a < b THEN a ELSE b

Max(a, b) == IF a > b THEN a ELSE b

Sign(x) == IF x > 0 THEN 1 ELSE IF x < 0 THEN -1 ELSE 0

\* a / b, truncated toward zero
TruncDiv(a, b) == IF a >= 0 THEN a \div b ELSE -((-a) \div b)

\* a * b / c truncated toward zero, without forming a * b (b, c > 0)
MulDiv(a, b, c) ==
    Sign(a) * ((Abs(a) \div c) * b + ((Abs(a) % c) * b) \div c)

RECURSIVE IsqrtFrom(_, _)
IsqrtFrom(n, x) ==
    LET y == (x + n \div x) \div 2
    IN  IF y >= x THEN x ELSE IsqrtFrom(n, y)

\* floor of Math.sqrt(n), n >= 0 (Newton's iteration from above)
Isqrt(n) == IF n = 0 THEN 0 ELSE IsqrtFrom(n, n)

RECURSIVE IcbrtFrom(_, _)
IcbrtFrom(n, k) ==
    IF (k + 1) * (k + 1) * (k + 1) > n THEN k ELSE IcbrtFrom(n, k + 1)

\* floor of Math.pow(n, 1/3), n >= 0
Icbrt(n) == IcbrtFrom(n, 0)

----------------------------------------------------------------------------
(* Simulation1: relativity helpers *)

\* getSchwarzschildRadius(mass) = mass / 66 * 10, in micro-units
getSchwarzschildRadius(mass) == (mass * 10000000) \div 66

\* getISCO(mass, spin) = rs * (6 - 5 * spin) / 6; spin in thousandths
getISCO(mass, spin) ==
    MulDiv(getSchwarzschildRadius(mass), 6000 - 5 * spin, 6000)

\* Half-width of the band around the ISCO in which a particle heats up and
\* may be launched; below iscoRadius - 3 it has fallen in.  Micro-units.
iscoMargin == 3000000

----------------------------------------------------------------------------
(* Simulation1: adaptive time stepping of updateDiskParticles *)

\* baseTimestep = 0.016 s
baseTimestep == 16

\* the lower clamp 0.001 s
minTimestep == 1

\* A double that may be non-finite: a tagged value
Num(n) == [tag |-> "num", val |-> n]

NaN == [tag |-> "NaN", val |-> 0]

Infinity == [tag |-> "Infinity", val |-> 0]

\* courantFactor * Math.sqrt(characteristicLength / maxAccelMagnitude) in ms:
\* 300 / sqrt(a), a in units/s^2.  Infinity gives 0.
safeDt(maxAccelMagnitude) ==
    IF maxAccelMagnitude.tag = "Infinity" THEN 0
    ELSE Isqrt(90000 \div maxAccelMagnitude.val)

\* the lower clamp left out
clampBelowMissing(dt) == dt

\* Math.max(safeDt, 0.001)
clampBelow(dt) == Max(dt, minTimestep)

\* The step the integration uses.  NaN > 0.1 is false, so a NaN magnitude
\* leaves the base step.  Magnitudes are whole units/s^2: a > 0.1 iff a >= 1.
AdaptiveDt(maxAccelMagnitude) ==
    IF maxAccelMagnitude.tag = "NaN" THEN baseTimestep
    ELSE IF maxAccelMagnitude.tag = "Infinity" \/ maxAccelMagnitude.val * 10 > 1
         THEN Min(baseTimestep, clampBelow(safeDt(maxAccelMagnitude)))
         ELSE baseTimestep

----------------------------------------------------------------------------
(* Simulation1: the accretion disk pool and the jet (outflow) particles *)

\* particleCount of the disk (15000 in the program)
particleCount == 2

\* MAX_TRAILS (500 in the program)
MAX_TRAILS == 2

\* maxAge of a launched particle (250 in the program)
jetMaxAge == 2

\* params.magneticFieldStrength, in tenths (default 1.0)
magneticFieldStrength == 10

\* radius = 18 + Math.pow(radiusRandom, 1.5) * 80 of particle i, micro-units:
\* the pool is sampled from the inner edge outward, two units apart
InitialRadius(i) == 18000000 + (i - 1) * 2000000

\* particleMass = 0.7 + density * 0.5 + Math.random() * 0.3, in tenths
ParticleMass(i) == 10

\* The companion's force on one disk particle, projected on the radial
\* direction.  It depends on the 3-D geometry of star and particle, which is
\* an input here: none, a strong pull inward, a strong push outward.
RadialForces == {-70000, 0, 70000}

\* A disk particle as the effect creates it
NewDiskParticle(r, m) ==
    [radius |-> r, initialRadius |-> r, vRadial |-> 0, mass |-> m,
     isInISCO |-> FALSE, timeInISCO |-> 0]

\* baseRadialAccel = -p.infallSpeed * params.spiralStrength * 0.018 * 60 with
\* infallSpeed = 0.012 / (initial radius) and spiralStrength 1.0, in whole
\* units/s^2: 0.01296 / radius, which is below the resolution of the model
baseRadialAccel(p) == -(12960 \div p.initialRadius)

\* totalRadialAccel = (baseRadialAccel + radialForce * 30) / p.mass
totalRadialAccel(p, radialForce) ==
    TruncDiv((baseRadialAccel(p) + radialForce * 30) * 10, p.mass)

\* accelMagnitude of the first pass (radial component only: the tangential
\* and vertical forces are zero for the forces drawn)
accelMagnitude(p, radialForce) == Abs(totalRadialAccel(p, radialForce))

RECURSIVE maxAccelFrom(_, _, _)
maxAccelFrom(disk, forces, i) ==
    IF i > Len(disk) THEN 0
    ELSE Max(accelMagnitude(disk[i], forces[i]),
             maxAccelFrom(disk, forces, i + 1))

\* maxAccelMagnitude over the pool
maxAccelMagnitude(disk, forces) == maxAccelFrom(disk, forces, 1)

\* steps 4-6 of the integration: v += a*dt; v *= 0.95; r += v*dt
integrate(p, radialForce, dt) ==
    LET v1 == p.vRadial + totalRadialAccel(p, radialForce) * dt
        v2 == MulDiv(v1, 95, 100)
    IN  [p EXCEPT !.vRadial = v2, !.radius = p.radius + v2 * dt]

\* p.isInISCO = radius >= iscoRadius - 3 && radius <= iscoRadius + 3
inISCOBand(radius, iscoRadius) ==
    /\ radius >= iscoRadius - iscoMargin
    /\ radius <= iscoRadius + iscoMargin

\* the fall-in test left out
fallInMissing(p, iscoRadius) == p

\* "Fall into black hole": a particle below iscoRadius - 3 restarts at its
\* initial radius
fallIn(p, iscoRadius) ==
    IF p.radius < iscoRadius - iscoMargin
    THEN [p EXCEPT !.radius = p.initialRadius]
    ELSE p

\* exp(-k/10) in thousandths, by repeated multiplication
RECURSIVE expTenths(_)
expTenths(k) ==
    IF k = 0 THEN 1000
    ELSE IF k > 0 THEN (expTenths(k - 1) * 905) \div 1000
    ELSE (expTenths(k + 1) * 1105) \div 1000

\* getBlandfordZnajekPower(radius, spin, bField), thousandths
getBlandfordZnajekPower(radius, mass, spin, bField) ==
    LET rs == getSchwarzschildRadius(mass)
        horizonFactor == expTenths(Max(-40, Min(40, TruncDiv(radius - rs, rs \div 10))))
    IN  (((spin * spin) \div 1000) * bField * horizonFactor) \div 10000

\* getLorentzFactor(energy) = 1 + energy * 10, thousandths
getLorentzFactor(energy) == 1000 + energy * 10

\* The record pushed on launchedParticles
NewLaunchParticle(id, p, mass, spin) ==
    [id |-> id, fieldProgress |-> 0, age |-> 0, maxAge |-> jetMaxAge,
     lorentzFactor |->
        getLorentzFactor(getBlandfordZnajekPower(p.radius, mass, spin,
                                                 magneticFieldStrength))]

\* the trail pushed with no limit on the trail count
pushTrailUncapped(trails, id) == Append(trails, id)

\* particleTrails.push(trail), then shift() the oldest beyond MAX_TRAILS
pushTrail(trails, id) ==
    LET pushed == Append(trails, id)
    IN  IF Len(pushed) > MAX_TRAILS THEN Tail(pushed) ELSE pushed

\* Second pass of updateDiskParticles from particle i on.  acc carries the
\* pool, the jet list, the trails and launchesThisFrame; coins[i] is the
\* outcome of Math.random() < launchProbability for particle i.
RECURSIVE diskLoop(_, _, _, _, _, _)
diskLoop(acc, i, forces, coins, dt, prm) ==
    IF i > Len(acc.disk) THEN acc
    ELSE
    LET iscoRadius == getISCO(prm.blackHoleMass, prm.spinParameter)
        p1     == integrate(acc.disk[i], forces[i], dt)
        inBand == inISCOBand(p1.radius, iscoRadius)
        launch == inBand /\ coins[i]
        id     == acc.counter + acc.launches + 1
        p2     == IF launch
                  THEN [p1 EXCEPT !.isInISCO = TRUE, !.timeInISCO = 0,
                                  !.radius = p1.initialRadius]
                  ELSE IF inBand
                  THEN [p1 EXCEPT !.isInISCO = TRUE,
                                  !.timeInISCO = p1.timeInISCO + 1]
                  ELSE [p1 EXCEPT !.isInISCO = FALSE, !.timeInISCO = 0]
        p3     == fallIn(p2, iscoRadius)
    IN  diskLoop(
            [acc EXCEPT
                !.disk[i] = p3,
                !.launched = IF launch
                             THEN Append(@, NewLaunchParticle(id, p1,
                                      prm.blackHoleMass, prm.spinParameter))
                             ELSE @,
                !.trails = IF launch /\ prm.showParticleTrails
                           THEN pushTrail(@, id) ELSE @,
                !.launches = IF launch THEN @ + 1 ELSE @],
            i + 1, forces, coins, dt, prm)

\* updateDiskParticles: the adaptive step, then the integration pass
updateDiskParticles(disk, launched, trails, counter, forces, coins, prm) ==
    LET dt == AdaptiveDt(Num(maxAccelMagnitude(disk, forces)))
    IN  [dt |-> dt,
         out |-> diskLoop([disk |-> disk, launched |-> launched,
                           trails |-> trails, counter |-> counter,
                           launches |-> 0],
                          1, forces, coins, dt, prm)]

\* fieldProgress += 0.025 * lorentzFactor * magneticFieldStrength, thousandths
advanceJet(lp) ==
    [lp EXCEPT !.fieldProgress =
        @ + (25 * lp.lorentzFactor * magneticFieldStrength) \div 10000]

\* updateJetParticles: age every particle, drop the expired ones with their
\* trails, move the others along their field line
RECURSIVE updateJetsFrom(_, _)
updateJetsFrom(launched, i) ==
    IF i > Len(launched) THEN <<>>
    ELSE LET lp == [launched[i] EXCEPT !.age = @ + 1]
         IN  IF lp.age > lp.maxAge
             THEN updateJetsFrom(launched, i + 1)
             ELSE <<advanceJet(lp)>> \o updateJetsFrom(launched, i + 1)

\* every particle aged and moved, the expired ones left in the list
updateJetParticlesKeepingExpired(launched) ==
    [i \in 1..Len(launched) |->
        advanceJet([launched[i] EXCEPT !.age = @ + 1])]

updateJetParticles(launched) == updateJetsFrom(launched, 1)

\* the trails left once the expired particles' trails are spliced out
pruneTrails(trails, launched) ==
    SelectSeq(trails, LAMBDA id : \E k \in 1..Len(launched) :
                                      launched[k].id = id)

----------------------------------------------------------------------------
(* CompanionStar (the class Simulation1 and Simulation3 construct: the     *)
(* first definition of physics/CompanionStar.js)                           *)

\* windParticleCount (5000 in the program)
windParticleCount == 1

\* particleCount of createQuantumEffects (1000 in the program)
quantumParticleCount == 1

\* maxAge of a wind particle
windMaxAge == 200

\* maxAge of a quantum particle of the companion
quantumMaxAge == 100

\* age: Math.random() * 200 of a new wind particle
WindInitialAges == {199}

\* age: Math.random() * 100 of a new quantum particle
QuantumInitialAges == {0}

ParticleTypes == {"particle", "antiparticle"}

\* x || d of the constructor: a falsy x gives the default
orDefault(x, d) == IF x = 0 THEN d ELSE x

\* params.k || d where params may lack k: undefined is falsy as well
paramOr(cp, k, d) == IF k \in DOMAIN cp THEN orDefault(cp[k], d) ELSE d

\* params.k !== undefined ? params.k : true
flagOr(cp, k) == IF k \in DOMAIN cp THEN cp[k] ELSE TRUE

\* calculateHillRadius: orbitalRadius * Math.pow(mass / 66 / 3, 1/3); the cube
\* root is taken to two decimals.  Math.pow of a negative base with the
\* exponent 1/3 is NaN.
calculateHillRadius(mass, orbitalRadius) ==
    IF mass < 0 THEN NaN
    ELSE Num((orbitalRadius * Icbrt((mass * 1000000) \div 198)) \div 100)

\* calculateOrbitalVelocity: Math.sqrt(0.1 * 66e9 / radius), radius > 0
calculateOrbitalVelocity(radius) == 10 * Isqrt(66000000 \div radius)

\* One wind particle's step of updateWindParticles.  The particle's position
\* relative to the star only feeds the renderer and is not kept.
updateWindParticle(w) ==
    LET aged == [w EXCEPT !.age = @ + 1]
    IN  IF aged.age > aged.maxAge THEN [aged EXCEPT !.age = 0] ELSE aged

\* expired wind particles spliced out of the pool instead of respawned
updateWindParticlesSplicing(cs) ==
    IF ~cs.enableWind THEN cs
    ELSE [cs EXCEPT !.windData =
            SelectSeq([i \in 1..Len(@) |-> [@[i] EXCEPT !.age = @ + 1]],
                      LAMBDA w : w.age <= w.maxAge)]

\* updateWindParticles: nothing moves when the wind is disabled
updateWindParticles(cs) ==
    IF ~cs.enableWind THEN cs
    ELSE [cs EXCEPT !.windData =
            [i \in 1..Len(@) |-> updateWindParticle(@[i])]]

\* One quantum particle's step of updateQuantumParticles; newType is the type
\* drawn if the particle is recreated (its velocity is not redrawn).
updateQuantumParticle(q, newType) ==
    LET aged == [q EXCEPT !.age = @ + 1]
    IN  IF aged.age > aged.maxAge
        THEN [aged EXCEPT !.age = 0, !.type = newType]
        ELSE aged

\* updateQuantumParticles
updateQuantumParticles(cs, newTypes) ==
    IF ~cs.enableQuantumEffects THEN cs
    ELSE [cs EXCEPT !.quantumData =
            [i \in 1..Len(@) |-> updateQuantumParticle(@[i], newTypes[i])]]

\* new CompanionStar(scene, 66e9, params): the fields (wind density and
\* gravitational strength in tenths), then createStellarWind
\* and createQuantumEffects, each of which ends with one update of its pool
NewCompanionStar(cp, windAges, quantumAges, types, signs, newTypes) ==
    LET mass == paramOr(cp, "mass", 40)
        orbitalRadius == paramOr(cp, "orbitalRadius", 250)
        fresh ==
          [mass |-> mass,
           radius |-> 15,
           orbitalRadius |-> orbitalRadius,
           orbitalVelocity |->
               paramOr(cp, "orbitalVelocity",
                       calculateOrbitalVelocity(orbitalRadius)),
           windVelocity |-> paramOr(cp, "windVelocity", 2000),
           windDensity |-> paramOr(cp, "windDensity", 10),
           influenceRadius |-> calculateHillRadius(mass, orbitalRadius),
           gravitationalStrength |-> paramOr(cp, "gravitationalStrength", 10),
           enableWind |-> flagOr(cp, "enableWind"),
           enableGravity |-> flagOr(cp, "enableGravity"),
           enableQuantumEffects |-> flagOr(cp, "enableQuantumEffects"),
           angle |-> 0,
           windData |-> [i \in 1..windParticleCount |->
                            [age |-> windAges[i], maxAge |-> windMaxAge]],
           quantumData |-> [i \in 1..quantumParticleCount |->
                            [age |-> quantumAges[i], maxAge |-> quantumMaxAge,
                             type |-> types[i], velocity |-> signs[i]]]]
    IN  updateQuantumParticles(updateWindParticles(fresh), newTypes)

\* a > b of two doubles, b the companion's influence radius: every
\* comparison with NaN is false
exceeds(a, b) == b.tag = "num" /\ a > b.val

\* calculateGravitationalForce(particlePosition), on the line through the
\* companion: x is the particle's offset from the companion, the result the
\* force along the same axis in 10^-9 units.  normalize() leaves the zero
\* vector as it is.
calculateGravitationalForce(cs, x) ==
    IF ~cs.enableGravity THEN 0
    ELSE IF exceeds(Abs(x), cs.influenceRadius) THEN 0
    ELSE LET forceMagnitude ==
                 TruncDiv(cs.mass * cs.gravitationalStrength * 100000,
                          x * x + 1)
         IN  Sign(-x) * forceMagnitude

\* calculateWindForce(particlePosition), on the same line
calculateWindForce(cs, x) ==
    IF ~cs.enableWind THEN 0
    ELSE LET windRange == cs.radius * 2
         IN  IF Abs(x) > windRange THEN 0
             ELSE LET windStrength ==
                          TruncDiv(cs.windDensity * cs.windVelocity * 10000,
                                   x * x + 1)
                  IN  Sign(x) * windStrength

\* getParticleForce(particlePosition)
getParticleForce(cs, x) ==
    calculateGravitationalForce(cs, x) + calculateWindForce(cs, x)

\* CompanionStar.update(deltaTime): the orbit angle in milliradians, then
\* both pools
companionUpdate(cs, deltaTime, newTypes) ==
    updateQuantumParticles(
        updateWindParticles(
            [cs EXCEPT !.angle =
                @ + (cs.orbitalVelocity * deltaTime) \div cs.orbitalRadius]),
        newTypes)

\* setParameters that stores mass and orbital radius and leaves the Hill
\* radius as it was
setParametersKeepingHillRadius(cs, p) ==
    LET c1 == IF "mass" \in DOMAIN p
              THEN [cs EXCEPT !.mass = p.mass]
              ELSE cs
        c2 == IF "orbitalRadius" \in DOMAIN p
              THEN [c1 EXCEPT !.orbitalRadius = p.orbitalRadius,
                              !.orbitalVelocity =
                                  calculateOrbitalVelocity(p.orbitalRadius)]
              ELSE c1
    IN  IF "enableWind" \in DOMAIN p
        THEN [c2 EXCEPT !.enableWind = p.enableWind]
        ELSE c2

\* CompanionStar.setParameters(params): each field params carries is applied
\* as it comes; nothing is validated and nothing is thrown
setParameters(cs, p) ==
    LET c1 == IF "mass" \in DOMAIN p
              THEN [cs EXCEPT !.mass = p.mass,
                              !.influenceRadius =
                                  calculateHillRadius(p.mass, cs.orbitalRadius)]
              ELSE cs
        c2 == IF "orbitalRadius" \in DOMAIN p
              THEN [c1 EXCEPT !.orbitalRadius = p.orbitalRadius,
                              !.orbitalVelocity =
                                  calculateOrbitalVelocity(p.orbitalRadius),
                              !.influenceRadius =
                                  calculateHillRadius(c1.mass, p.orbitalRadius)]
              ELSE c1
        c3 == IF "orbitalVelocity" \in DOMAIN p
              THEN [c2 EXCEPT !.orbitalVelocity = p.orbitalVelocity]
              ELSE c2
        c4 == IF "windVelocity" \in DOMAIN p
              THEN [c3 EXCEPT !.windVelocity = p.windVelocity]
              ELSE c3
        c5 == IF "windDensity" \in DOMAIN p
              THEN [c4 EXCEPT !.windDensity = p.windDensity]
              ELSE c4
        c6 == IF "gravitationalStrength" \in DOMAIN p
              THEN [c5 EXCEPT !.gravitationalStrength =
                                  p.gravitationalStrength]
              ELSE c5
    IN  IF "enableWind" \in DOMAIN p
        THEN [c6 EXCEPT !.enableWind = p.enableWind]
        ELSE c6

----------------------------------------------------------------------------
(* Simulation1: the component's state, its effect and its animation loop *)

\* frames explored after one run of the effect
MaxFrames == 3

\* deltaTime = (currentTime - lastTime) / 1000 of a frame, in ms: a 60 Hz
\* frame, and two frames stamped with the same clock reading
DeltaTimes == {0, 16}

\* Simulation1 hands deltaTime to the companion's orbit only; its frames are
\* taken at 60 Hz
DeltaTimes1 == {16}

\* useState defaults of Simulation1 (spin in thousandths)
DefaultParams1 ==
    [blackHoleMass |-> 66, spinParameter |-> 700,
     showCompanionStar |-> TRUE, showParticleTrails |-> TRUE,
     companionStarMass |-> 40, companionStarDistance |-> 250]

\* values the sliders and switches of Simulation1 can set
ParamValues1 ==
    [blackHoleMass |-> {66, 100}, spinParameter |-> {0, 700},
     showCompanionStar |-> BOOLEAN, showParticleTrails |-> BOOLEAN,
     companionStarMass |-> {40}, companionStarDistance |-> {250}]

\* getParticleForce is consulted only while the companion is shown
ForcesOn(prm) == IF prm.showCompanionStar THEN RadialForces ELSE {0}

\* The disk pool the effect creates
NewDiskPool ==
    [i \in 1..particleCount |->
        NewDiskParticle(InitialRadius(i), ParticleMass(i))]

\* The companions new CompanionStar(scene, blackHoleMass, {...}) can create
\* from a component's params.  The components never read the type of a
\* quantum particle: the pool is followed here from particles.
CompanionStars1(prm) ==
    {NewCompanionStar(
         [mass |-> prm.companionStarMass,
          orbitalRadius |-> prm.companionStarDistance,
          gravitationalStrength |-> 10,
          windVelocity |-> 2000, windDensity |-> 10,
          enableWind |-> TRUE, enableGravity |-> TRUE,
          enableQuantumEffects |-> TRUE],
         windAges, quantumAges, types, signs, newTypes) :
        windAges \in [1..windParticleCount -> WindInitialAges],
        quantumAges \in [1..quantumParticleCount -> QuantumInitialAges],
        types \in [1..quantumParticleCount -> {"particle"}],
        signs \in [1..quantumParticleCount -> {1}],
        newTypes \in [1..quantumParticleCount -> {"particle"}]}

\* The body of Simulation1's effect: everything is built anew
Mount1(prm, playing) ==
    /\ activeSimulation' = 1
    /\ params' = prm
    /\ isPlaying' = playing
    /\ frame' = 0
    /\ threw' = FALSE
    /\ launchedParticles' = <<>>
    /\ particleTrails' = <<>>
    /\ launchCounter' = 0
    /\ maxAccel' = Num(0)
    /\ adaptiveDt' = -1
    /\ diskData' = NewDiskPool
    /\ companionStar' \in CompanionStars1(prm)
    /\ star' = "null"
    /\ debris' = "null"
    /\ hawkingRadiation' = "null"

\* Whether the quantum particle i of the companion is recreated by the next
\* update, which is when its new type is drawn
quantumExpires(cs, i) ==
    cs.enableQuantumEffects /\ cs.quantumData[i].age + 1 > cs.quantumData[i].maxAge

\* The draws of the recreated quantum particles; a particle that is not
\* recreated consumes no draw
NewTypeDraws(cs) ==
    {t \in [1..Len(cs.quantumData) -> ParticleTypes] :
        \A i \in 1..Len(cs.quantumData) :
            ~quantumExpires(cs, i) => t[i] = "particle"}

\* The outcomes of Math.random() < launchProbability, consulted only for the
\* particles the integration leaves in the ISCO band
LaunchDraws(disk, forces, prm) ==
    LET dt == AdaptiveDt(Num(maxAccelMagnitude(disk, forces)))
        iscoRadius == getISCO(prm.blackHoleMass, prm.spinParameter)
    IN  {c \in [1..Len(disk) -> BOOLEAN] :
            \A i \in 1..Len(disk) :
                c[i] => inISCOBand(integrate(disk[i], forces[i], dt).radius,
                                   iscoRadius)}

\* One call of Simulation1's animate(): the disk and the jets advance only
\* while playing; the companion's update is outside that guard.
Animate1 ==
    /\ activeSimulation = 1
    /\ frame < MaxFrames
    /\ \E deltaTime \in DeltaTimes1,
          forces \in [1..particleCount -> ForcesOn(params)],
          newTypes \in NewTypeDraws(companionStar) :
          \E coins \in LaunchDraws(diskData, forces, params) :
          LET upd == updateDiskParticles(diskData, launchedParticles,
                         particleTrails, launchCounter, forces, coins, params)
              jets == updateJetParticles(upd.out.launched)
          IN  /\ IF isPlaying
                 THEN /\ diskData' = upd.out.disk
                      /\ launchedParticles' = jets
                      /\ particleTrails' = pruneTrails(upd.out.trails, jets)
                      /\ launchCounter' = launchCounter + upd.out.launches
                      /\ maxAccel' = Num(maxAccelMagnitude(diskData, forces))
                      /\ adaptiveDt' = upd.dt
                 ELSE UNCHANGED <<diskData, launchedParticles, particleTrails,
                                  launchCounter, maxAccel, adaptiveDt>>
              /\ companionStar' =
                    IF params.showCompanionStar
                    THEN companionUpdate(companionStar, deltaTime, newTypes)
                    ELSE companionStar
    /\ frame' = frame + 1
    /\ UNCHANGED <<activeSimulation, isPlaying, params, threw, star, debris,
                   hawkingRadiation>>
    /\ UNCHANGED <<simulation2Vars, schedulerVars>>

\* The Play/Pause button: isPlaying is a dependency of the effect, so the
\* cleanup runs and the effect builds the scene again
TogglePlay1 ==
    /\ activeSimulation = 1
    /\ Mount1(params, ~isPlaying)
    /\ UNCHANGED <<simulation2Vars, schedulerVars>>

\* A slider or switch: params is a dependency of the effect as well
SetParams1 ==
    /\ activeSimulation = 1
    /\ \E k \in DOMAIN ParamValues1 : \E v \in ParamValues1[k] :
          /\ v # params[k]
          /\ Mount1([params EXCEPT ![k] = v], isPlaying)
    /\ UNCHANGED <<simulation2Vars, schedulerVars>>

----------------------------------------------------------------------------
(* Star: the body of the tidal disruption event (physics/Star.js) *)

\* calculateTidalRadius(): Math.min(13 * 3 * cbrt(66e9 / 1), 80) = 80
tidalRadius == 80

\* health is kept in units of 1 / (100 * tidalRadius), in which the loss of a
\* tick, stretchAmount * 0.01 = (1 - distance / tidalRadius) * 0.01, is the
\* whole number tidalRadius - distance
fullHealth == 100 * tidalRadius

\* the disruption threshold 0.3
disruptHealth == 30 * tidalRadius

\* calculateGravity(distance) * deltaTime = 0.1 * 66e9 / distance^2 * dt, the
\* change of speed of one step, units/s.  At distance 0 the direction vector
\* normalizes to zero and nothing is added.
gravityDv(distance, deltaTime) ==
    IF distance = 0 THEN 0
    ELSE ((6600000 * deltaTime) \div distance) \div distance

\* new Star(scene, blackHoleMass): at (300, 0, 0); the initial velocity
\* (-0.5, 0, 0.3) is below one unit/s
NewStar ==
    [position |-> 300, velocity |-> 0, health |-> fullHealth,
     isDisrupted |-> FALSE]

\* the flag recomputed from this tick's test alone
disruptedAfterForgetful(st, stretched, health) ==
    stretched /\ health < disruptHealth

\* if (this.health < 0.3) this.isDisrupted = true, inside the stretching
\* branch: the flag is only ever set
disruptedAfter(st, stretched, health) ==
    st.isDisrupted \/ (stretched /\ health < disruptHealth)

\* Star.update(deltaTime)
starUpdate(st, deltaTime) ==
    LET distance == Abs(st.position)
        velocity == st.velocity
                    - Sign(st.position) * gravityDv(distance, deltaTime)
        position == st.position + MulDiv(velocity, deltaTime, 1000)
        stretched == distance < tidalRadius /\ ~st.isDisrupted
        health == IF stretched
                  THEN st.health - Max(0, tidalRadius - distance)
                  ELSE st.health
    IN  [position |-> position, velocity |-> velocity, health |-> health,
         isDisrupted |-> disruptedAfter(st, stretched, health)]

\* a star that never reports its disruption
shouldDisruptNever(st) == FALSE

\* Star.shouldDisrupt()
shouldDisrupt(st) == st.isDisrupted

\* position and velocity set anew, health and the disrupted flag left as
\* they are
starResetKeepingHealth(st, newPosition, newVelocity) ==
    [st EXCEPT !.position = newPosition, !.velocity = newVelocity]

\* Star.reset(newPosition, newVelocity)
starReset(st, newPosition, newVelocity) ==
    [position |-> newPosition, velocity |-> newVelocity,
     health |-> fullHealth, isDisrupted |-> FALSE]

----------------------------------------------------------------------------
(* StellarDebris: the debris of the disrupted star *)

\* maxParticles (5000 in the program)
maxParticles == 3

\* debrisCount, the particles of one generation (200 in the program)
debrisCount == 2

\* maxAge: 1000 + Math.random() * 500 (in ticks)
debrisMaxAge == 3

\* this.eventHorizon
eventHorizon == 13

\* this.ISCO * 1.5, beyond which a slow particle is circularized
circularizeRadius == 27

\* perpVector * spreadFactor along the line of motion, |spreadFactor| <= 5
PositionSpreads == {0, 5}

\* new StellarDebris(scene, blackHoleMass)
NewStellarDebris == [particles |-> <<>>, particleCount |-> 0]

\* an identity for the object pushed on particles: the least number no live
\* particle carries
freshId(particles) ==
    CHOOSE n \in 1..(Len(particles) + 1) :
        /\ \A k \in 1..Len(particles) : particles[k].id # n
        /\ \A m \in 1..(n - 1) : \E k \in 1..Len(particles) : particles[k].id = m

\* generateDebrisFromStar(starState) from its i-th particle on; spreads[i] is
\* the position offset drawn for the i-th particle.  Position and velocity
\* being collinear, the angular momentum position x velocity is zero.
RECURSIVE generateFrom(_, _, _, _)
generateFrom(db, starState, spreads, i) ==
    IF i > debrisCount \/ db.particleCount >= maxParticles THEN db
    ELSE generateFrom(
            [particles |-> Append(db.particles,
                [id |-> freshId(db.particles),
                 position |-> starState.position + spreads[i],
                 velocity |-> starState.velocity,
                 angularMomentum |-> 0,
                 age |-> 0, maxAge |-> debrisMaxAge,
                 inStream |-> TRUE, circularized |-> FALSE]),
             particleCount |-> db.particleCount + 1],
            starState, spreads, i + 1)

\* a full pool evicting its oldest particle to admit the new one
generateDebrisEvicting(db, starState, spreads) ==
    generateFrom(
        IF db.particleCount >= maxParticles
        THEN [particles |-> Tail(db.particles),
              particleCount |-> db.particleCount - 1]
        ELSE db,
        starState, spreads, 1)

generateDebrisFromStar(db, starState, spreads) ==
    generateFrom(db, starState, spreads, 1)

\* StellarDebris.calculateOrbitalVelocity(radius)
debrisOrbitalVelocity(radius) == 10 * Isqrt(66000000 \div Max(radius, 18))

\* inStream written on every pass as "not circularizing now"
inStreamAfterRewritten(p, begins) == ~begins

\* p.inStream = false where circularization begins; no other write
inStreamAfter(p, begins) == IF begins THEN FALSE ELSE p.inStream

\* the test passed by every slow particle, whatever its distance
nearApocenterAnyRadius(radialVelocity, distance) ==
    Abs(radialVelocity) * 10 < 1

\* Math.abs(radialVelocity) < 0.1 && distance > this.ISCO * 1.5
nearApocenter(radialVelocity, distance) ==
    Abs(radialVelocity) * 10 < 1 /\ distance > circularizeRadius

\* One particle's pass through the loop body of StellarDebris.update, for a
\* particle that is not removed
updateDebrisParticle(p, deltaTime) ==
    LET distance == Abs(p.position)
        gravDv == -Sign(p.position) * gravityDv(distance, deltaTime)
        tested == p.inStream /\ ~p.circularized
        \* p.velocity.clone().dot(p.position.normalize()): normalize() works
        \* in place, the position is left a unit vector
        direction == Sign(p.position)
        radialVelocity == p.velocity * direction
        position1 == IF tested THEN direction ELSE p.position
        begins == tested /\ nearApocenter(radialVelocity, distance)
        circularized == p.circularized \/ begins
        \* tangent = angularMomentum x position, normalized: zero here
        tangent == Sign(p.angularMomentum)
        velocity1 == IF circularized
                     THEN tangent * debrisOrbitalVelocity(Abs(position1))
                     ELSE p.velocity
        velocity2 == velocity1 + gravDv
    IN  [p EXCEPT !.age = @ + 1,
                  !.circularized = circularized,
                  !.inStream = inStreamAfter(p, begins),
                  !.velocity = velocity2,
                  !.position = position1 + MulDiv(velocity2, deltaTime, 1000)]

\* whether update removes the particle: too old, or inside the event horizon
debrisRemoved(p) ==
    p.age + 1 > p.maxAge \/ Abs(p.position) < eventHorizon

\* StellarDebris.update(deltaTime)
RECURSIVE debrisUpdateFrom(_, _, _)
debrisUpdateFrom(particles, deltaTime, i) ==
    IF i > Len(particles) THEN <<>>
    ELSE IF debrisRemoved(particles[i])
         THEN debrisUpdateFrom(particles, deltaTime, i + 1)
         ELSE <<updateDebrisParticle(particles[i], deltaTime)>>
              \o debrisUpdateFrom(particles, deltaTime, i + 1)

\* an update that drops particles from the list and leaves the count alone
debrisUpdateKeepingCount(db, deltaTime) ==
    [particles |-> debrisUpdateFrom(db.particles, deltaTime, 1),
     particleCount |-> db.particleCount]

debrisUpdate(db, deltaTime) ==
    LET kept == debrisUpdateFrom(db.particles, deltaTime, 1)
    IN  [particles |-> kept,
         particleCount |-> db.particleCount - (Len(db.particles) - Len(kept))]

\* StellarDebris.clear()
debrisClear(db) == [particles |-> <<>>, particleCount |-> 0]

----------------------------------------------------------------------------
(* HawkingRadiation: the pair particles at the event horizon *)

\* particleCount handed to new HawkingRadiation (1000 in the program)
hawkingParticleCount == 1

\* maxAge: 100 + Math.random() * 50 (in ticks)
hawkingMaxAge == 2

\* radialVelocity = isParticle ? 0.05 : -0.05, as a sign
radialVelocityOf(type) == IF type = "particle" THEN 1 ELSE -1

\* One particle's step of HawkingRadiation.updateParticles; newType is the
\* type drawn if the slot is recycled
updateHawkingParticle(q, newType) ==
    LET aged == [q EXCEPT !.age = @ + 1]
    IN  IF aged.age > aged.maxAge
        THEN [aged EXCEPT !.age = 0, !.type = newType,
                          !.velocity = radialVelocityOf(newType)]
        ELSE aged

\* HawkingRadiation.updateParticles()
updateParticles(hr, newTypes) ==
    IF ~hr.enabled THEN hr
    ELSE [hr EXCEPT !.particleData =
            [i \in 1..Len(@) |-> updateHawkingParticle(@[i], newTypes[i])]]

\* new HawkingRadiation(scene, mass, EVENT_HORIZON, {...}), which ends with
\* one updateParticles()
NewHawkingRadiation(enabled, types, newTypes) ==
    updateParticles(
        [enabled |-> enabled,
         particleData |-> [i \in 1..hawkingParticleCount |->
            [age |-> 0, maxAge |-> hawkingMaxAge, type |-> types[i],
             velocity |-> radialVelocityOf(types[i])]]],
        newTypes)

\* The draws of the recycled slots; a slot that is not recycled draws nothing
HawkingDraws(hr) ==
    {t \in [1..Len(hr.particleData) -> ParticleTypes] :
        \A i \in 1..Len(hr.particleData) :
            ~(hr.enabled /\ hr.particleData[i].age + 1 > hr.particleData[i].maxAge)
                => t[i] = "particle"}

----------------------------------------------------------------------------
(* Simulation3: the observatory view *)

\* const ISCO = 18 of Simulation3, micro-units
ISCO3 == 18000000

\* particleCount of Simulation3's disk (25000 in the program)
particleCount3 == 1

\* The star is followed until it is this far from the black hole (units)
StarFar == 1000

\* useState defaults of Simulation3
DefaultParams3 ==
    [showCompanionStar |-> TRUE, showTDE |-> TRUE, starVelocity |-> 0,
     companionStarMass |-> 40, companionStarDistance |-> 250]

\* values the switches of Simulation3 can set
ParamValues3 ==
    [showCompanionStar |-> BOOLEAN, showTDE |-> BOOLEAN,
     starVelocity |-> {0}, companionStarMass |-> {40},
     companionStarDistance |-> {250}]

\* radius = ISCO + Math.pow(Math.random(), 0.7) * 100 of particle i
InitialRadius3(i) == ISCO3 + (i - 1) * 2000000

\* baseRadialAccel = -p.infallSpeed * params.accretionRate * 60 with
\* infallSpeed = 0.02 / (initial radius), in whole units/s^2
baseRadialAccel3(p) == -(1200000 \div p.initialRadius)

\* Steps 3-6 of Simulation3's disk loop with dt = 0.016 and no companion
\* force, then "Reset if fallen in"
updateDiskParticle3(p) ==
    LET v1 == p.vRadial + baseRadialAccel3(p) * baseTimestep
        v2 == MulDiv(v1, 95, 100)
        radius == p.radius + v2 * baseTimestep
    IN  [p EXCEPT !.vRadial = v2,
                  !.radius = IF radius < ISCO3 THEN p.initialRadius ELSE radius]

\* The body of Simulation3's effect
Mount3(prm, playing) ==
    /\ activeSimulation' = 3
    /\ params' = prm
    /\ isPlaying' = playing
    /\ frame' = 0
    /\ threw' = FALSE
    /\ launchedParticles' = <<>>
    /\ particleTrails' = <<>>
    /\ launchCounter' = 0
    /\ maxAccel' = Num(0)
    /\ adaptiveDt' = -1
    /\ diskData' = [i \in 1..particleCount3 |->
                       NewDiskParticle(InitialRadius3(i), 10)]
    /\ companionStar' \in CompanionStars1(prm)
    /\ star' = NewStar
    /\ debris' = NewStellarDebris
    /\ \E types \in [1..hawkingParticleCount -> ParticleTypes] :
          hawkingRadiation' = NewHawkingRadiation(TRUE, types, types)

\* One call of Simulation3's animate().  While playing with the companion
\* shown, the disk loop calls companionStar.getParticleInfluence, which no
\* CompanionStar defines: the call throws a TypeError at the first particle
\* and nothing after it runs.
Animate3 ==
    /\ activeSimulation = 3
    /\ IF ~isPlaying
       THEN UNCHANGED <<threw, diskData, star, debris, hawkingRadiation>>
       ELSE IF params.showCompanionStar /\ Len(diskData) > 0
       THEN /\ threw' = TRUE
            /\ UNCHANGED <<diskData, star, debris, hawkingRadiation>>
       ELSE /\ threw' = FALSE
            /\ params.showTDE => Abs(star.position) <= StarFar
            /\ diskData' = [i \in 1..Len(diskData) |->
                               updateDiskParticle3(diskData[i])]
            /\ \E deltaTime \in DeltaTimes,
                  spreads \in [1..debrisCount -> PositionSpreads] :
                  IF params.showTDE
                  THEN LET st == starUpdate(star, deltaTime)
                           generated ==
                               IF shouldDisrupt(st)
                               THEN generateDebrisFromStar(debris, st, spreads)
                               ELSE debris
                       IN  /\ star' = st
                           /\ debris' = debrisUpdate(generated, deltaTime)
                  ELSE UNCHANGED <<star, debris>>
            /\ \E newTypes \in HawkingDraws(hawkingRadiation) :
                  hawkingRadiation' = updateParticles(hawkingRadiation, newTypes)
    /\ UNCHANGED <<activeSimulation, isPlaying, params, frame,
                   launchedParticles, particleTrails, launchCounter,
                   maxAccel, adaptiveDt, companionStar>>
    /\ UNCHANGED <<simulation2Vars, schedulerVars>>

\* The Play/Pause button of Simulation3
TogglePlay3 ==
    /\ activeSimulation = 3
    /\ Mount3(params, ~isPlaying)
    /\ UNCHANGED <<simulation2Vars, schedulerVars>>

\* A switch of Simulation3
SetParams3 ==
    /\ activeSimulation = 3
    /\ \E k \in DOMAIN ParamValues3 : \E v \in ParamValues3[k] :
          /\ v # params[k]
          /\ Mount3([params EXCEPT ![k] = v], isPlaying)
    /\ UNCHANGED <<simulation2Vars, schedulerVars>>

\* The "Reset Star" button, shown while params.showTDE
ResetStar ==
    /\ activeSimulation = 3
    /\ params.showTDE
    /\ star' = starReset(star, 300, -params.starVelocity)
    /\ debris' = debrisClear(debris)
    /\ UNCHANGED <<activeSimulation, isPlaying, params, frame, threw, diskData,
                   launchedParticles, particleTrails, launchCounter,
                   maxAccel, adaptiveDt, companionStar, hawkingRadiation>>
    /\ UNCHANGED <<simulation2Vars, schedulerVars>>

----------------------------------------------------------------------------
(* App: the selector that mounts one simulation *)

\* setActiveSimulation(sim.id): the other component is mounted with its
\* useState defaults
SetActiveSimulation ==
    \/ /\ activeSimulation # 1
       /\ Mount1(DefaultParams1, TRUE)
       /\ UNCHANGED <<simulation2Vars, schedulerVars>>
    \/ /\ activeSimulation # 3
       /\ Mount3(DefaultParams3, TRUE)
       /\ UNCHANGED <<simulation2Vars, schedulerVars>>

\* useState(3): the App starts on Simulation3
Init ==
    /\ activeSimulation = 3
    /\ params = DefaultParams3
    /\ isPlaying = TRUE
    /\ frame = 0
    /\ threw = FALSE
    /\ launchedParticles = <<>>
    /\ particleTrails = <<>>
    /\ launchCounter = 0
    /\ maxAccel = Num(0)
    /\ adaptiveDt = -1
    /\ diskData = [i \in 1..particleCount3 |->
                      NewDiskParticle(InitialRadius3(i), 10)]
    /\ companionStar \in CompanionStars1(DefaultParams3)
    /\ star = NewStar
    /\ debris = NewStellarDebris
    /\ hawkingRadiation \in
          {NewHawkingRadiation(TRUE, types, types) :
              types \in [1..hawkingParticleCount -> ParticleTypes]}
    /\ NoSimulation2
    /\ NoScheduler

Next ==
    \/ Animate1
    \/ TogglePlay1
    \/ SetParams1
    \/ Animate3
    \/ TogglePlay3
    \/ SetParams3
    \/ ResetStar
    \/ SetActiveSimulation

Spec == Init /\ [][Next]_vars

----------------------------------------------------------------------------
(* The physics classes driven through their own methods, no component       *)
(* mounted                                                                  *)

NoComponent ==
    /\ activeSimulation = 0
    /\ isPlaying = FALSE
    /\ params = DefaultParams3
    /\ frame = 0
    /\ threw = FALSE
    /\ diskData = <<>>
    /\ launchedParticles = <<>>
    /\ particleTrails = <<>>
    /\ launchCounter = 0

componentVars ==
    <<activeSimulation, isPlaying, params, threw, diskData,
      launchedParticles, particleTrails, launchCounter>>

(* The adaptive time step over the magnitudes the first pass can hand it *)

\* magnitudes 0, 1, 2, ... units/s^2 taken one by one
AccelSmall == 60

\* magnitudes taken in thousands of units/s^2
AccelLarge == 120

AccelInputs ==
    {Num(a) : a \in 0..AccelSmall}
        \cup {Num(a * 1000) : a \in 1..AccelLarge}
        \cup {NaN, Infinity}

InitDt ==
    /\ NoComponent
    /\ maxAccel \in AccelInputs
    /\ adaptiveDt = -1
    /\ companionStar = "null"
    /\ star = "null"
    /\ debris = "null"
    /\ hawkingRadiation = "null"
    /\ NoSimulation2
    /\ NoScheduler

\* "Calculate adaptive time step (CFL condition)" for the magnitude found
ComputeAdaptiveDt ==
    /\ adaptiveDt = -1
    /\ adaptiveDt' = AdaptiveDt(maxAccel)
    /\ UNCHANGED <<componentVars, frame, maxAccel, companionStar, star,
                   debris, hawkingRadiation>>
    /\ UNCHANGED <<simulation2Vars, schedulerVars>>

NextDt == ComputeAdaptiveDt

SpecDt == InitDt /\ [][NextDt]_vars

(* A CompanionStar constructed, reconfigured and advanced *)

\* masses handed to setParameters: a negative one, zero, two O-type masses
MassInputs == {-1, 0, 15, 40}

\* orbital radii handed to setParameters
RadiusInputs == {100, 250}

\* the params objects handed to setParameters
ParameterObjects ==
    {[mass |-> m] : m \in MassInputs}
        \cup {[orbitalRadius |-> r] : r \in RadiusInputs}
        \cup {[enableWind |-> b] : b \in BOOLEAN}

InitCompanion ==
    /\ NoComponent
    /\ maxAccel = Num(0)
    /\ adaptiveDt = -1
    /\ companionStar \in CompanionStars1(DefaultParams1)
    /\ star = "null"
    /\ debris = "null"
    /\ hawkingRadiation = "null"
    /\ NoSimulation2
    /\ NoScheduler

CompanionSetParameters ==
    /\ \E p \in ParameterObjects :
          companionStar' = setParameters(companionStar, p)
    /\ UNCHANGED <<componentVars, frame, maxAccel, adaptiveDt, star, debris,
                   hawkingRadiation>>
    /\ UNCHANGED <<simulation2Vars, schedulerVars>>

CompanionUpdate ==
    /\ frame < MaxFrames
    /\ \E deltaTime \in DeltaTimes,
          newTypes \in NewTypeDraws(companionStar) :
          companionStar' = companionUpdate(companionStar, deltaTime, newTypes)
    /\ frame' = frame + 1
    /\ UNCHANGED <<componentVars, maxAccel, adaptiveDt, star, debris,
                   hawkingRadiation>>
    /\ UNCHANGED <<simulation2Vars, schedulerVars>>

NextCompanion == CompanionSetParameters \/ CompanionUpdate

SpecCompanion == InitCompanion /\ [][NextCompanion]_vars

(* A CompanionStar reconfigured and asked for its force on a particle *)

\* offsets of the particle from the companion, on a line through it: at the
\* companion, next to it, either side of the wind range (30) and of the Hill
\* radii of the masses 15 and 40 at the orbital radii 100 and 250
ParticleOffsets ==
    {-200, -146, -145, -106, -105, -59, -58, -43, -42, -31, -30, -1, 0,
     1, 30, 31, 42, 43, 58, 59, 105, 106, 145, 146, 200}

\* getParticleForce(particlePosition) called for one particle: diskData
\* keeps the particle asked for and the two contributions of the call
CompanionGetParticleForce ==
    /\ \E x \in ParticleOffsets :
          diskData' = <<[offset |-> x,
                         gravity |-> calculateGravitationalForce(companionStar, x),
                         wind |-> calculateWindForce(companionStar, x),
                         force |-> getParticleForce(companionStar, x)]>>
    /\ UNCHANGED <<activeSimulation, isPlaying, params, frame, threw,
                   launchedParticles, particleTrails, launchCounter,
                   maxAccel, adaptiveDt, companionStar, star, debris,
                   hawkingRadiation>>
    /\ UNCHANGED <<simulation2Vars, schedulerVars>>

NextForce == CompanionSetParameters \/ CompanionGetParticleForce

SpecForce == InitCompanion /\ [][NextForce]_vars

(* updateJetParticles called tick after tick on a list that holds one       *)
(* particle as the launch pushes it                                         *)

\* maxAge: 250 of the launch; jetMaxAge stands for it in the frames of Spec
launchMaxAge == 250

\* the black holes the particle is launched at
JetLaunchParams ==
    {[blackHoleMass |-> 66, spinParameter |-> 0],
     [blackHoleMass |-> 66, spinParameter |-> 700],
     [blackHoleMass |-> 100, spinParameter |-> 998]}

\* p.radius at the launch: radii inside the ISCO band, micro-units
JetLaunchRadii(prm) ==
    {r \in {2000000, 4000000, 7000000, 12000000} :
        inISCOBand(r, getISCO(prm.blackHoleMass, prm.spinParameter))}

InitJet ==
    /\ activeSimulation = 0
    /\ isPlaying = FALSE
    /\ params = DefaultParams3
    /\ frame = 0
    /\ threw = FALSE
    /\ diskData = <<>>
    /\ \E prm \in JetLaunchParams : \E r \in JetLaunchRadii(prm) :
          launchedParticles =
              <<[NewLaunchParticle(1, [radius |-> r], prm.blackHoleMass,
                                   prm.spinParameter)
                   EXCEPT !.maxAge = launchMaxAge]>>
    /\ particleTrails = <<1>>
    /\ launchCounter = 1
    /\ maxAccel = Num(0)
    /\ adaptiveDt = -1
    /\ companionStar = "null"
    /\ star = "null"
    /\ debris = "null"
    /\ hawkingRadiation = "null"
    /\ NoSimulation2
    /\ NoScheduler

\* updateJetParticles(launchedParticles, particleTrails, scene, time)
JetTick ==
    /\ launchedParticles # <<>>
    /\ launchedParticles' = updateJetParticles(launchedParticles)
    /\ particleTrails' = pruneTrails(particleTrails, launchedParticles')
    /\ frame' = frame + 1
    /\ UNCHANGED <<activeSimulation, isPlaying, params, threw, diskData,
                   launchCounter, maxAccel, adaptiveDt, companionStar, star,
                   debris, hawkingRadiation>>
    /\ UNCHANGED <<simulation2Vars, schedulerVars>>

NextJet == JetTick

SpecJet == InitJet /\ [][NextJet]_vars

(* A StellarDebris fed with star states and advanced *)

\* the starState handed to generateDebrisFromStar: at rest or falling, outside
\* the circularization radius or at the event horizon
StarStates == [position : {10, 40}, velocity : {-100, 0}]

InitDebris ==
    /\ NoComponent
    /\ maxAccel = Num(0)
    /\ adaptiveDt = -1
    /\ companionStar = "null"
    /\ star = "null"
    /\ debris = NewStellarDebris
    /\ hawkingRadiation = "null"
    /\ NoSimulation2
    /\ NoScheduler

DebrisGenerate ==
    /\ \E starState \in StarStates,
          spreads \in [1..debrisCount -> PositionSpreads] :
          debris' = generateDebrisFromStar(debris, starState, spreads)
    /\ UNCHANGED <<componentVars, frame, maxAccel, adaptiveDt, companionStar,
                   star, hawkingRadiation>>
    /\ UNCHANGED <<simulation2Vars, schedulerVars>>

DebrisUpdate ==
    /\ \E deltaTime \in DeltaTimes : debris' = debrisUpdate(debris, deltaTime)
    /\ UNCHANGED <<componentVars, frame, maxAccel, adaptiveDt, companionStar,
                   star, hawkingRadiation>>
    /\ UNCHANGED <<simulation2Vars, schedulerVars>>

DebrisClear ==
    /\ debris' = debrisClear(debris)
    /\ UNCHANGED <<componentVars, frame, maxAccel, adaptiveDt, companionStar,
                   star, hawkingRadiation>>
    /\ UNCHANGED <<simulation2Vars, schedulerVars>>

NextDebris == DebrisGenerate \/ DebrisUpdate \/ DebrisClear

SpecDebris == InitDebris /\ [][NextDebris]_vars

----------------------------------------------------------------------------
(* A Star constructed and advanced frame by frame *)

\* deltaTime of a frame, in ms: the two roundings of a 60 Hz frame, and a
\* frame after a dropped one
DeltaTimesStar == {16, 17, 33}

InitStar ==
    /\ NoComponent
    /\ maxAccel = Num(0)
    /\ adaptiveDt = -1
    /\ companionStar = "null"
    /\ star = NewStar
    /\ debris = "null"
    /\ hawkingRadiation = "null"
    /\ NoSimulation2
    /\ NoScheduler

\* star.update(deltaTime), followed while the star is within StarFar
StarUpdate ==
    /\ Abs(star.position) <= StarFar
    /\ \E deltaTime \in DeltaTimesStar : star' = starUpdate(star, deltaTime)
    /\ UNCHANGED <<componentVars, frame, maxAccel, adaptiveDt, companionStar,
                   debris, hawkingRadiation>>
    /\ UNCHANGED <<simulation2Vars, schedulerVars>>

\* star.reset(new THREE.Vector3(300, 0, 0), ...) with the default starVelocity
StarReset ==
    /\ star' = starReset(star, 300, -DefaultParams3.starVelocity)
    /\ UNCHANGED <<componentVars, frame, maxAccel, adaptiveDt, companionStar,
                   debris, hawkingRadiation>>
    /\ UNCHANGED <<simulation2Vars, schedulerVars>>

NextStar == StarUpdate \/ StarReset

SpecStar == InitStar /\ [][NextStar]_vars

----------------------------------------------------------------------------
(* Simulation1 with the companion switched off: the disk under its own     *)
(* infall alone.  The infall is some 10^-5 units per frame, far below the   *)
(* micro-unit/millisecond scale above, so this pool is kept in units of     *)
(* 10^-8 and the time in frames of baseTimestep (the adaptive step is       *)
(* baseTimestep here: the acceleration is below 0.1).                       *)

\* frames followed with the companion off
MaxDriftTicks == 1000

\* launches followed with the companion off
MaxDriftLaunches == 1

\* particleMass = 0.7 + density * 0.5 + Math.random() * 0.3 in tenths, at the
\* least the formula gives: the lighter the particle, the faster it falls
DriftParticleMass(i) == 7

\* The disk pool of the effect in units of 10^-8, seeded from the inner edge
\* (radius 18, where infallSpeed is largest) outward.  resets records how
\* often the particle has been put back at its seed radius, by a launch or by
\* falling in (the program counts the launches only, in launchCounter).
NewDriftPool ==
    [i \in 1..particleCount |->
        [radius |-> InitialRadius(i) * 100,
         initialRadius |-> InitialRadius(i) * 100,
         vRadial |-> 0, mass |-> DriftParticleMass(i),
         isInISCO |-> FALSE, timeInISCO |-> 0, resets |-> 0]]

\* baseRadialAccel = -p.infallSpeed * params.spiralStrength * 0.018 * 60
\* = -0.01296 / (initial radius) units/s^2, which is
\* -331.776 / (initial radius) * 10^-8 units per frame^2
driftRadialAccel(p) == -(331776 \div (p.initialRadius \div 100000))

\* the damping factor with the wrong sign: v *= -0.95
driftIntegrateSignFlipped(p) ==
    LET v1 == p.vRadial + TruncDiv(driftRadialAccel(p) * 10, p.mass)
        v2 == -MulDiv(v1, 95, 100)
    IN  [p EXCEPT !.vRadial = v2, !.radius = p.radius + v2]

\* steps 3-6 of the integration with radialForce = 0 and adaptiveDt = one
\* frame: v += a/m * dt; v *= 0.95; r += v * dt
driftIntegrate(p) ==
    LET v1 == p.vRadial + TruncDiv(driftRadialAccel(p) * 10, p.mass)
        v2 == MulDiv(v1, 95, 100)
    IN  [p EXCEPT !.vRadial = v2, !.radius = p.radius + v2]

\* the particle as the launch code and the ISCO tests read it, in micro-units
inMicroUnits(p) == [p EXCEPT !.radius = @ \div 100]

\* Second pass of updateDiskParticles from particle i on, companion off
RECURSIVE driftLoop(_, _, _, _)
driftLoop(acc, i, coins, prm) ==
    IF i > Len(acc.disk) THEN acc
    ELSE
    LET iscoRadius == getISCO(prm.blackHoleMass, prm.spinParameter)
        p1     == driftIntegrate(acc.disk[i])
        inBand == inISCOBand(inMicroUnits(p1).radius, iscoRadius)
        launch == inBand /\ coins[i]
        id     == acc.counter + acc.launches + 1
        p2     == IF launch
                  THEN [p1 EXCEPT !.isInISCO = TRUE, !.timeInISCO = 0,
                                  !.radius = p1.initialRadius,
                                  !.resets = @ + 1]
                  ELSE IF inBand
                  THEN [p1 EXCEPT !.isInISCO = TRUE,
                                  !.timeInISCO = p1.timeInISCO + 1]
                  ELSE [p1 EXCEPT !.isInISCO = FALSE, !.timeInISCO = 0]
        p3     == IF inMicroUnits(p2).radius < iscoRadius - iscoMargin
                  THEN [p2 EXCEPT !.radius = p2.initialRadius,
                                  !.resets = @ + 1]
                  ELSE p2
    IN  driftLoop(
            [acc EXCEPT
                !.disk[i] = p3,
                !.launched = IF launch
                             THEN Append(@, NewLaunchParticle(id,
                                      inMicroUnits(p1),
                                      prm.blackHoleMass, prm.spinParameter))
                             ELSE @,
                !.trails = IF launch /\ prm.showParticleTrails
                           THEN pushTrail(@, id) ELSE @,
                !.launches = IF launch THEN @ + 1 ELSE @],
            i + 1, coins, prm)

\* The outcomes of Math.random() < launchProbability with the companion off
DriftLaunchDraws(disk, counter, prm) ==
    LET iscoRadius == getISCO(prm.blackHoleMass, prm.spinParameter)
    IN  {c \in [1..Len(disk) -> BOOLEAN] :
            \A i \in 1..Len(disk) :
                c[i] => /\ counter + i <= MaxDriftLaunches
                        /\ inISCOBand(
                               inMicroUnits(driftIntegrate(disk[i])).radius,
                               iscoRadius)}

\* the params of the runs with the companion off: the defaults (mass 66e9,
\* spin 0.7), and the heaviest black hole without spin, whose ISCO band
\* reaches the inner edge of the disk
DriftParams ==
    {[DefaultParams1 EXCEPT !.showCompanionStar = FALSE],
     [DefaultParams1 EXCEPT !.showCompanionStar = FALSE,
                            !.blackHoleMass = 100, !.spinParameter = 0]}

\* the effect run with the companion off, playing
InitDrift ==
    /\ activeSimulation = 1
    /\ isPlaying = TRUE
    /\ params \in DriftParams
    /\ frame = 0
    /\ threw = FALSE
    /\ launchedParticles = <<>>
    /\ particleTrails = <<>>
    /\ launchCounter = 0
    /\ maxAccel = Num(0)
    /\ adaptiveDt = -1
    /\ diskData = NewDriftPool
    /\ companionStar \in CompanionStars1(DefaultParams1)
    /\ star = "null"
    /\ debris = "null"
    /\ hawkingRadiation = "null"
    /\ NoSimulation2
    /\ NoScheduler

\* One call of animate() while playing with params.showCompanionStar false:
\* the companion is not updated
DriftTick ==
    /\ frame < MaxDriftTicks
    /\ \E coins \in DriftLaunchDraws(diskData, launchCounter, params) :
          LET out == driftLoop([disk |-> diskData,
                                launched |-> launchedParticles,
                                trails |-> particleTrails,
                                counter |-> launchCounter, launches |-> 0],
                               1, coins, params)
              jets == updateJetParticles(out.launched)
          IN  /\ diskData' = out.disk
              /\ launchedParticles' = jets
              /\ particleTrails' = pruneTrails(out.trails, jets)
              /\ launchCounter' = launchCounter + out.launches
    /\ maxAccel' = Num(0)
    /\ adaptiveDt' = AdaptiveDt(Num(0))
    /\ frame' = frame + 1
    /\ UNCHANGED <<activeSimulation, isPlaying, params, threw, companionStar,
                   star, debris, hawkingRadiation>>
    /\ UNCHANGED <<simulation2Vars, schedulerVars>>

NextDrift == DriftTick

SpecDrift == InitDrift /\ [][NextDrift]_vars

----------------------------------------------------------------------------
(* Simulation1 with the companion off, left running: the smallest black     *)
(* hole, whose fall-in threshold iscoRadius - 3 is below zero.  With the     *)
(* companion off the acceleration of a particle is a constant, so its speed  *)
(* settles at the value the damping balances and every further frame in      *)
(* which it is not launched moves it inward by the same amount: the pool is  *)
(* taken up where that has brought the innermost particle close to radius 0. *)

\* frames integrated one by one from the seed, after which the speed no
\* longer changes
SettleTicks == 200

\* how far above radius 0 the innermost particle is taken up, 10^-8 units
LongRunMargin == 20000

\* frames followed from there
MaxLongRunTicks == 100

\* blackHoleMass at the low end of its slider, no spin: iscoRadius = 1.515
LongRunParams ==
    [DefaultParams1 EXCEPT !.showCompanionStar = FALSE,
                           !.blackHoleMass = 10, !.spinParameter = 0]

\* n frames of the integration, no launch
RECURSIVE settle(_, _)
settle(p, n) ==
    IF n = 0 THEN p
    ELSE IF n = 1 THEN driftIntegrate(p)
    ELSE LET half == settle(p, n \div 2)
         IN  IF half.radius <= p.radius
             THEN settle(half, n - n \div 2) ELSE half

\* the speed is the one the damping balances: a frame leaves it as it is
atTerminalSpeed(p) == driftIntegrate(p).vRadial = p.vRadial

\* frames a particle at its terminal speed takes to come within
\* LongRunMargin of radius 0
framesToMargin(p) == (p.radius - LongRunMargin) \div (-p.vRadial)

\* frames until a particle at its terminal speed is first found in the ISCO
\* band of prm (its radius, read in micro-units, is at most iscoRadius + 3)
framesToBand(p, prm) ==
    LET upper == (getISCO(prm.blackHoleMass, prm.spinParameter)
                    + iscoMargin) * 100 + 99
    IN  IF p.radius <= upper THEN 0
        ELSE (p.radius - upper - p.vRadial - 1) \div (-p.vRadial)

\* m further frames of a particle at its terminal speed, none of which
\* launches it: the radius moves m times the speed, and timeInISCO counts
\* the frames that found it in the band
fastForward(p, m, prm) ==
    LET k == framesToBand(p, prm)
    IN  [p EXCEPT !.radius = @ + m * p.vRadial,
                  !.isInISCO = m >= k /\ m > 0,
                  !.timeInISCO = IF m >= k /\ m > 0
                                 THEN m - Max(k, 1) + 1 ELSE 0]

\* The pool after SettleTicks frames and then as many as bring its fastest
\* particle within LongRunMargin of radius 0
LongRunPool(prm) ==
    LET settled == [i \in 1..particleCount |->
                       settle(NewDriftPool[i], SettleTicks)]
        m == Min(framesToMargin(settled[1]), framesToMargin(settled[2]))
    IN  [i \in 1..particleCount |-> fastForward(settled[i], m, prm)]

InitLongRun ==
    /\ activeSimulation = 1
    /\ isPlaying = TRUE
    /\ params = LongRunParams
    /\ frame = 0
    /\ threw = FALSE
    /\ launchedParticles = <<>>
    /\ particleTrails = <<>>
    /\ launchCounter = 0
    /\ maxAccel = Num(0)
    /\ adaptiveDt = AdaptiveDt(Num(0))
    /\ \A i \in 1..particleCount :
          atTerminalSpeed(settle(NewDriftPool[i], SettleTicks))
    /\ diskData = LongRunPool(LongRunParams)
    /\ companionStar \in CompanionStars1(DefaultParams1)
    /\ star = "null"
    /\ debris = "null"
    /\ hawkingRadiation = "null"
    /\ NoSimulation2
    /\ NoScheduler

\* One call of animate(), as in DriftTick
LongRunTick ==
    /\ frame < MaxLongRunTicks
    /\ \E coins \in DriftLaunchDraws(diskData, launchCounter, params) :
          LET out == driftLoop([disk |-> diskData,
                                launched |-> launchedParticles,
                                trails |-> particleTrails,
                                counter |-> launchCounter, launches |-> 0],
                               1, coins, params)
              jets == updateJetParticles(out.launched)
          IN  /\ diskData' = out.disk
              /\ launchedParticles' = jets
              /\ particleTrails' = pruneTrails(out.trails, jets)
              /\ launchCounter' = launchCounter + out.launches
    /\ maxAccel' = Num(0)
    /\ adaptiveDt' = AdaptiveDt(Num(0))
    /\ frame' = frame + 1
    /\ UNCHANGED <<activeSimulation, isPlaying, params, threw, companionStar,
                   star, debris, hawkingRadiation>>
    /\ UNCHANGED <<simulation2Vars, schedulerVars>>

NextLongRun == LongRunTick

SpecLongRun == InitLongRun /\ [][NextLongRun]_vars

(* A debris particle with angular momentum, generated at rest on its radius *)
(* and advanced in its orbital plane                                       *)

\* distances of the new particle from the black hole, in tenths of a unit:
\* all beyond ISCO * 1.5, where a particle at rest circularizes at once
OrbitDistances == {300, 400, 1000, 2000, 3000, 4000, 5000}

\* updates followed for one particle (maxAge is at least 1000)
OrbitMaxAge == 40

\* gravity * deltaTime^2 = 0.1 * 66e9 / distance^2 * deltaTime^2, the
\* displacement of one update toward the black hole; tenths, deltaTime in ms
gravityDisplacement(distance, deltaTime) ==
    (((6600 * deltaTime * deltaTime * 10) \div distance) * 100) \div distance

\* (calculateOrbitalVelocity(radius) * deltaTime)^2, the square of the
\* displacement of one update along the tangent; tenths squared
tangentDisplacementSquared(radius, deltaTime) ==
    (6600 * deltaTime * deltaTime * 1000) \div Max(radius, 180)

\* position.length() after "p.position.add(p.velocity * deltaTime)" of a
\* circularized particle: the velocity is the tangent (perpendicular to the
\* position) times the orbital speed at currentRadius, plus gravAccel *
\* deltaTime along the position, gravity being taken at distance
orbitRadiusAfter(distance, currentRadius, deltaTime) ==
    LET radial == currentRadius - gravityDisplacement(distance, deltaTime)
    IN  Isqrt(radial * radial
              + tangentDisplacementSquared(currentRadius, deltaTime))

\* One pass of the loop body of StellarDebris.update over a particle that
\* is circularized, or in-stream at rest beyond ISCO * 1.5.  The test of an
\* in-stream particle leaves its position a unit vector (10 tenths) before
\* currentRadius is read.
updateOrbitingParticle(p, deltaTime) ==
    LET distance == p.radius
        begins == p.inStream /\ ~p.circularized
                    /\ nearApocenter(0, distance \div 10)
        currentRadius == IF p.inStream /\ ~p.circularized THEN 10
                         ELSE p.radius
    IN  [p EXCEPT !.age = @ + 1,
                  !.circularized = p.circularized \/ begins,
                  !.inStream = inStreamAfter(p, begins),
                  !.radius = orbitRadiusAfter(distance, currentRadius,
                                              deltaTime)]

\* whether update removes the particle: too old, or inside the event horizon
orbitingRemoved(p) ==
    p.age + 1 > p.maxAge \/ p.radius < eventHorizon * 10

InitOrbit ==
    /\ NoComponent
    /\ maxAccel = Num(0)
    /\ adaptiveDt = -1
    /\ companionStar = "null"
    /\ star = "null"
    /\ \E d \in OrbitDistances :
          debris = [particles |-> <<[id |-> 1, radius |-> d, age |-> 0,
                                     maxAge |-> OrbitMaxAge,
                                     inStream |-> TRUE,
                                     circularized |-> FALSE]>>,
                    particleCount |-> 1]
    /\ hawkingRadiation = "null"
    /\ NoSimulation2
    /\ NoScheduler

\* StellarDebris.update(0.016)
OrbitUpdate ==
    /\ debris.particles # <<>>
    /\ debris' =
          IF orbitingRemoved(debris.particles[1])
          THEN [particles |-> <<>>, particleCount |-> debris.particleCount - 1]
          ELSE [debris EXCEPT !.particles =
                   <<updateOrbitingParticle(debris.particles[1], 16)>>]
    /\ UNCHANGED <<componentVars, frame, maxAccel, adaptiveDt, companionStar,
                   star, hawkingRadiation>>
    /\ UNCHANGED <<simulation2Vars, schedulerVars>>

NextOrbit == OrbitUpdate

SpecOrbit == InitOrbit /\ [][NextOrbit]_vars

(* The pair particles of a CompanionStar and of a HawkingRadiation, each    *)
(* pool advanced by its own update method                                  *)

\* age: Math.random() * 100 of a new quantum particle of the companion,
\* whole: a young one and one about to expire
PairInitialAges == {0, 99}

\* the radial component of a velocity drawn as three numbers in
\* (-0.05, 0.05), as a sign: outward or inward
PairVelocitySigns == {-1, 1}

InitPairs ==
    /\ NoComponent
    /\ maxAccel = Num(0)
    /\ adaptiveDt = -1
    /\ \E windAges \in [1..windParticleCount -> WindInitialAges],
          quantumAges \in [1..quantumParticleCount -> PairInitialAges],
          types \in [1..quantumParticleCount -> ParticleTypes],
          signs \in [1..quantumParticleCount -> PairVelocitySigns] :
          companionStar =
              NewCompanionStar(
                  [mass |-> 40, orbitalRadius |-> 250,
                   gravitationalStrength |-> 10,
                   windVelocity |-> 2000, windDensity |-> 10,
                   enableWind |-> TRUE, enableGravity |-> TRUE,
                   enableQuantumEffects |-> TRUE],
                  windAges, quantumAges, types, signs, types)
    /\ star = "null"
    /\ debris = "null"
    /\ \E types \in [1..hawkingParticleCount -> ParticleTypes] :
          hawkingRadiation = NewHawkingRadiation(TRUE, types, types)
    /\ NoSimulation2
    /\ NoScheduler

\* companionStar.updateQuantumParticles()
PairsUpdateQuantumParticles ==
    /\ \E newTypes \in NewTypeDraws(companionStar) :
          companionStar' = updateQuantumParticles(companionStar, newTypes)
    /\ UNCHANGED <<componentVars, frame, maxAccel, adaptiveDt, star, debris,
                   hawkingRadiation>>
    /\ UNCHANGED <<simulation2Vars, schedulerVars>>

\* hawkingRadiation.updateParticles()
PairsUpdateParticles ==
    /\ \E newTypes \in HawkingDraws(hawkingRadiation) :
          hawkingRadiation' = updateParticles(hawkingRadiation, newTypes)
    /\ UNCHANGED <<componentVars, frame, maxAccel, adaptiveDt, companionStar,
                   star, debris>>
    /\ UNCHANGED <<simulation2Vars, schedulerVars>>

NextPairs == PairsUpdateQuantumParticles \/ PairsUpdateParticles

SpecPairs == InitPairs /\ [][NextPairs]_vars

(* Simulation2: the magnetically confined jets (components/Simulation2.jsx), *)
(* followed through its disk, its jets, its trails and its two counters     *)

\* const ISCO = 18, in micro-units
ISCO2 == 18000000

\* particleCount of Simulation2's disk (35000 in the program)
particleCount2 == 1

\* maxAge of a jet particle (250 in the program)
jetMaxAge2 == 4

\* the accretionTrails array is cut back to 500 lines
maxAccretionTrails == 500

\* a particle's trail is cut back to 15 points
maxTrailPoints == 15

\* ticks of one run of the effect the model follows
MaxFrames2 == 40

\* useState defaults of Simulation2, the rates in tenths
DefaultParams2 ==
    [accretionRate |-> 25, viscosity |-> 15, timeScale |-> 10,
     jetLaunchRate |-> 20, showTrails |-> TRUE, showJets |-> TRUE]

\* values the sliders and switches of Simulation2 can set
ParamValues2 ==
    [accretionRate |-> {25, 50}, viscosity |-> {15, 30},
     timeScale |-> {10, 50}, jetLaunchRate |-> {20},
     showTrails |-> BOOLEAN, showJets |-> BOOLEAN]

\* radius = ISCO * 1.5 + Math.pow(Math.random(), 0.8) * 150, micro-units: the
\* draw 0
InitialRadii2 == {27000000}

\* the disk particle pushed by the effect and rewritten by resetSimulation;
\* infallSpeed = 0.04 * (1 / radius), micro-units a tick; trail is the number
\* of points of p.trail
NewDiskParticle2(radius) ==
    [radius |-> radius, initialRadius |-> radius,
     infallSpeed |-> 40000000 \div (radius \div 1000),
     age |-> 0, trail |-> 0]

\* the disk pools the effect, and resetSimulation, can create
NewDiskPools2 ==
    {[i \in 1..particleCount2 |-> NewDiskParticle2(radii[i])] :
        radii \in [1..particleCount2 -> InitialRadii2]}

\* distToISCO < 10 ? (1 + (10 - distToISCO) * 0.3) : 1, in thousandths
infallAcceleration(distToISCO) ==
    IF distToISCO < 10000000
    THEN 1000 + ((10000000 - distToISCO) * 3) \div 10000
    ELSE 1000

\* p.infallSpeed * params.accretionRate * params.viscosity
\*   * infallAcceleration * params.timeScale
infallStep(p, prm) ==
    LET perTick == (p.infallSpeed * prm.accretionRate * prm.viscosity) \div 100
        accelerated == (perTick * infallAcceleration(p.radius - ISCO2)) \div 1000
    IN  (accelerated * prm.timeScale) \div 10

\* "Update jet particles": each jet ages by one tick and is spliced out once
\* its age has passed maxAge
RECURSIVE updateJets2(_)
updateJets2(jets) ==
    IF jets = <<>> THEN <<>>
    ELSE LET jet == [Head(jets) EXCEPT !.age = @ + 1]
         IN  IF jet.age > jet.maxAge
             THEN updateJets2(Tail(jets))
             ELSE <<jet>> \o updateJets2(Tail(jets))

\* accretionTrails.push(trail), the oldest line shifted out past 500
pushAccretionTrail(trails, points) ==
    LET pushed == Append(trails, points)
    IN  IF Len(pushed) > maxAccretionTrails THEN Tail(pushed) ELSE pushed

\* "ACCRETION DISK PHYSICS" from particle i on; st carries the disk and the
\* effect's arrays and counters, coins[i] is the outcome of
\* Math.random() < 0.05 * params.jetLaunchRate for particle i
RECURSIVE diskLoop2(_, _, _, _)
diskLoop2(st, prm, coins, i) ==
    IF i > Len(st.disk) THEN st
    ELSE
      LET p == st.disk[i]
          age == p.age + 1
          distToISCO == p.radius - ISCO2
          radius == p.radius - infallStep(p, prm)
          drawsTrail == prm.showTrails /\ age % 3 = 0
          trail == IF drawsTrail THEN Min(p.trail + 1, maxTrailPoints)
                   ELSE p.trail
          addsLine == drawsTrail /\ trail > 2 /\ distToISCO < 30000000
          accreted == radius < ISCO2
          launches == accreted /\ prm.showJets /\ coins[i]
      IN  diskLoop2(
            [disk |-> [st.disk EXCEPT ![i] =
                          [p EXCEPT !.age = age,
                                    !.radius = IF accreted THEN p.initialRadius
                                               ELSE radius,
                                    !.trail = IF accreted THEN 0 ELSE trail]],
             accretionTrails |->
                 IF addsLine THEN pushAccretionTrail(st.accretionTrails, trail)
                 ELSE st.accretionTrails,
             jetParticles |->
                 IF launches
                 THEN Append(st.jetParticles,
                             [age |-> 0, maxAge |-> jetMaxAge2])
                 ELSE st.jetParticles,
             particlesAccreted |->
                 st.particlesAccreted + (IF accreted THEN 1 ELSE 0),
             jetsLaunched |-> st.jetsLaunched + (IF launches THEN 1 ELSE 0)],
            prm, coins, i + 1)

\* The outcomes of the launch draw, consulted only for the particles that
\* fall below the ISCO while jets are shown and the launch rate is positive
LaunchDraws2(disk, prm) ==
    {c \in [1..Len(disk) -> BOOLEAN] :
        \A i \in 1..Len(disk) :
            c[i] => /\ disk[i].radius - infallStep(disk[i], prm) < ISCO2
                    /\ prm.showJets
                    /\ prm.jetLaunchRate > 0}

\* The body of Simulation2's effect: the disk, the four arrays and the
\* counters are created anew and the refs are pointed at the new arrays; the
\* stats state is the component's and outlives the effect
Mount2(prm, playing) ==
    /\ activeSimulation' = 2
    /\ params' = prm
    /\ isPlaying' = playing
    /\ frame' = 0
    /\ threw' = FALSE
    /\ diskData' \in NewDiskPools2
    /\ jetParticles' = <<>>
    /\ accretionTrails' = <<>>
    /\ particlesAccreted' = 0
    /\ jetsLaunched' = 0
    /\ jetParticlesRef' = EffectArray
    /\ accretionTrailsRef' = EffectArray
    /\ UNCHANGED <<stats, launchedParticles, particleTrails, launchCounter,
                   maxAccel, adaptiveDt, companionStar, star, debris,
                   hawkingRadiation>>

\* One call of Simulation2's animate(): while playing the jets age, the disk
\* advances and the counters are copied into stats.  The companion star, at
\* its distance of 250 with an influence radius of 145, exerts no force on a
\* particle this close to the hole and is left out, as are the photon
\* orbiters and the shock waves.
Animate2 ==
    /\ activeSimulation = 2
    /\ frame < MaxFrames2
    /\ IF isPlaying
       THEN \E coins \in LaunchDraws2(diskData, params) :
              LET out == diskLoop2(
                            [disk |-> diskData,
                             accretionTrails |-> accretionTrails,
                             jetParticles |-> updateJets2(jetParticles),
                             particlesAccreted |-> particlesAccreted,
                             jetsLaunched |-> jetsLaunched],
                            params, coins, 1)
              IN  /\ diskData' = out.disk
                  /\ accretionTrails' = out.accretionTrails
                  /\ jetParticles' = out.jetParticles
                  /\ particlesAccreted' = out.particlesAccreted
                  /\ jetsLaunched' = out.jetsLaunched
                  /\ stats' = [particlesAccreted |-> out.particlesAccreted,
                               jetsLaunched |-> out.jetsLaunched]
       ELSE UNCHANGED <<diskData, accretionTrails, jetParticles,
                        particlesAccreted, jetsLaunched, stats>>
    /\ frame' = frame + 1
    /\ UNCHANGED <<activeSimulation, isPlaying, params, threw,
                   launchedParticles, particleTrails, launchCounter, maxAccel,
                   adaptiveDt, companionStar, star, debris, hawkingRadiation,
                   jetParticlesRef, accretionTrailsRef, schedulerVars>>

\* The Play/Pause button of Simulation2
TogglePlay2 ==
    /\ activeSimulation = 2
    /\ Mount2(params, ~isPlaying)
    /\ UNCHANGED schedulerVars

\* A slider or switch of Simulation2
SetParams2 ==
    /\ activeSimulation = 2
    /\ \E k \in DOMAIN ParamValues2 : \E v \in ParamValues2[k] :
          /\ v # params[k]
          /\ Mount2([params EXCEPT ![k] = v], isPlaying)
    /\ UNCHANGED schedulerVars

\* an array resetSimulation has created: empty, and known to the ref only
ResetArray == [isEffectArray |-> FALSE, items |-> <<>>]

\* The Reset button: resetSimulation() rewrites every disk particle in the
\* array diskDataRef holds, points the refs at new empty arrays and zeroes the
\* stats state.  It changes neither params nor isPlaying, so the effect does
\* not run again.
ResetSimulation ==
    /\ activeSimulation = 2
    /\ diskData' \in NewDiskPools2
    /\ accretionTrailsRef' = ResetArray
    /\ jetParticlesRef' = ResetArray
    /\ stats' = [particlesAccreted |-> 0, jetsLaunched |-> 0]
    /\ UNCHANGED <<activeSimulation, isPlaying, params, frame, threw,
                   launchedParticles, particleTrails, launchCounter, maxAccel,
                   adaptiveDt, companionStar, star, debris, hawkingRadiation,
                   jetParticles, accretionTrails, particlesAccreted,
                   jetsLaunched, schedulerVars>>

\* Simulation2 as the App mounts it
InitSimulation2 ==
    /\ activeSimulation = 2
    /\ params = DefaultParams2
    /\ isPlaying = TRUE
    /\ frame = 0
    /\ threw = FALSE
    /\ diskData \in NewDiskPools2
    /\ launchedParticles = <<>>
    /\ particleTrails = <<>>
    /\ launchCounter = 0
    /\ maxAccel = Num(0)
    /\ adaptiveDt = -1
    /\ companionStar = "null"
    /\ star = "null"
    /\ debris = "null"
    /\ hawkingRadiation = "null"
    /\ NoSimulation2
    /\ NoScheduler

NextSimulation2 ==
    \/ Animate2
    \/ TogglePlay2
    \/ SetParams2
    \/ ResetSimulation

SpecSimulation2 == InitSimulation2 /\ [][NextSimulation2]_vars

----------------------------------------------------------------------------

(* The animation loops: which calls of animate() the browser has been asked *)
(* for.  The populations animate() advances are those of Spec; here a call  *)
(* of animate() is followed by the request it makes and the frame it counts. *)

\* requests the model lets the browser hand out
MaxRequests == 6

\* requestAnimationFrame(animate): the handle returned, a new positive number
requestAnimationFrame == requestId + 1

\* cancelAnimationFrame(handle) on the pending requests
cancelAnimationFrame(pending, handle) == pending \ {handle}

\* The cleanup and the body of Simulation1's effect, as far as the loop goes:
\* the cleanup cancels the request animationRef holds, the body ends in
\* animate(), whose first statement requests the next call and stores the
\* handle
LoopEffect1(prm, playing) ==
    LET pending == IF animationRef # 0
                   THEN cancelAnimationFrame(scheduled, animationRef)
                   ELSE scheduled
    IN  /\ requestId < MaxRequests
        /\ params' = prm
        /\ isPlaying' = playing
        /\ frame' = 0
        /\ requestId' = requestAnimationFrame
        /\ animationRef' = requestAnimationFrame
        /\ scheduled' = pending \cup {requestAnimationFrame}

\* The browser renders a frame and calls Simulation1's animate() for one of
\* the pending requests
LoopAnimate1 ==
    /\ activeSimulation = 1
    /\ requestId < MaxRequests
    /\ \E handle \in scheduled :
          scheduled' = (scheduled \ {handle}) \cup {requestAnimationFrame}
    /\ requestId' = requestAnimationFrame
    /\ animationRef' = requestAnimationFrame
    /\ frame' = frame + 1
    /\ UNCHANGED <<activeSimulation, isPlaying, params, threw, diskData,
                   launchedParticles, particleTrails, launchCounter, maxAccel,
                   adaptiveDt, companionStar, star, debris, hawkingRadiation,
                   simulation2Vars>>

\* The Play/Pause button of Simulation1: the effect runs again
LoopTogglePlay1 ==
    /\ activeSimulation = 1
    /\ LoopEffect1(params, ~isPlaying)
    /\ UNCHANGED <<activeSimulation, threw, diskData, launchedParticles,
                   particleTrails, launchCounter, maxAccel, adaptiveDt,
                   companionStar, star, debris, hawkingRadiation,
                   simulation2Vars>>

\* A slider or switch of Simulation1: the effect runs again
LoopSetParams1 ==
    /\ activeSimulation = 1
    /\ \E k \in DOMAIN ParamValues1 : \E v \in ParamValues1[k] :
          /\ v # params[k]
          /\ LoopEffect1([params EXCEPT ![k] = v], isPlaying)
    /\ UNCHANGED <<activeSimulation, threw, diskData, launchedParticles,
                   particleTrails, launchCounter, maxAccel, adaptiveDt,
                   companionStar, star, debris, hawkingRadiation,
                   simulation2Vars>>

\* useState defaults of InteractiveTON618 among the dependencies of its
\* effect (time scale in tenths); the component is shown on its own, outside
\* the App, with activeSimulation 0
InteractiveDefaults ==
    [showJets |-> TRUE, showDisk |-> TRUE, isPaused |-> FALSE,
     timeScale |-> 10]

\* values its buttons and sliders can set
InteractiveValues ==
    [showJets |-> BOOLEAN, showDisk |-> BOOLEAN, isPaused |-> BOOLEAN,
     timeScale |-> {10, 15}]

\* The cleanup and the body of InteractiveTON618's effect, as far as the loop
\* goes: the cleanup removes listeners and the canvas and cancels nothing, the
\* body calls animate(), which requests the next call and drops the handle
InteractiveEffect(state) ==
    /\ requestId < MaxRequests
    /\ params' = state
    /\ frame' = 0
    /\ requestId' = requestAnimationFrame
    /\ scheduled' = scheduled \cup {requestAnimationFrame}
    /\ UNCHANGED animationRef

\* The browser renders a frame and calls, for one of the pending requests,
\* the animate() of the effect run that made it
InteractiveAnimate ==
    /\ activeSimulation = 0
    /\ requestId < MaxRequests
    /\ \E handle \in scheduled :
          scheduled' = (scheduled \ {handle}) \cup {requestAnimationFrame}
    /\ requestId' = requestAnimationFrame
    /\ frame' = frame + 1
    /\ UNCHANGED <<activeSimulation, isPlaying, params, threw, diskData,
                   launchedParticles, particleTrails, launchCounter, maxAccel,
                   adaptiveDt, companionStar, star, debris, hawkingRadiation,
                   simulation2Vars, animationRef>>

\* A toggle, the pause key or a slider of InteractiveTON618: each of them is
\* a dependency of the effect
InteractiveSetState ==
    /\ activeSimulation = 0
    /\ \E k \in DOMAIN InteractiveValues : \E v \in InteractiveValues[k] :
          /\ v # params[k]
          /\ InteractiveEffect([params EXCEPT ![k] = v])
    /\ UNCHANGED <<activeSimulation, isPlaying, threw, diskData,
                   launchedParticles, particleTrails, launchCounter, maxAccel,
                   adaptiveDt, companionStar, star, debris, hawkingRadiation,
                   simulation2Vars>>

\* Simulation1, or InteractiveTON618, after its first render: the effect has
\* run once and animate() has made its first request
InitLoops ==
    /\ \/ /\ activeSimulation = 1
          /\ params = DefaultParams1
          /\ isPlaying = TRUE
          /\ animationRef = 1
       \/ /\ activeSimulation = 0
          /\ params = InteractiveDefaults
          /\ isPlaying = FALSE
          /\ animationRef = 0
    /\ scheduled = {1}
    /\ requestId = 1
    /\ frame = 0
    /\ threw = FALSE
    /\ diskData = <<>>
    /\ launchedParticles = <<>>
    /\ particleTrails = <<>>
    /\ launchCounter = 0
    /\ maxAccel = Num(0)
    /\ adaptiveDt = -1
    /\ companionStar = "null"
    /\ star = "null"
    /\ debris = "null"
    /\ hawkingRadiation = "null"
    /\ NoSimulation2

NextLoops ==
    \/ LoopAnimate1
    \/ LoopTogglePlay1
    \/ LoopSetParams1
    \/ InteractiveAnimate
    \/ InteractiveSetState

SpecLoops == InitLoops /\ [][NextLoops]_vars

----------------------------------------------------------------------------

(* A CompanionStar constructed with a params object, beside one constructed *)
(* with none and handed the same object through setParameters               *)

\* values a params object can carry for each physical parameter, 0 among
\* them (strength and density in tenths); the orbital radius is kept
\* positive, calculateOrbitalVelocity dividing by it
PhysicalValues ==
    [mass |-> {0, 15}, orbitalRadius |-> {100}, orbitalVelocity |-> {0, 500},
     windVelocity |-> {0, 1000}, windDensity |-> {0, 20},
     gravitationalStrength |-> {0, 20}]

\* the params objects: each physical parameter absent or present
ParamsObjects ==
    UNION {{p \in [D -> {0, 15, 20, 100, 500, 1000}] :
               \A k \in D : p[k] \in PhysicalValues[k]} :
           D \in SUBSET DOMAIN PhysicalValues}

\* new CompanionStar(scene, blackHoleMass, params), over the draws of its
\* particle pools
ConstructedStars(p) ==
    {NewCompanionStar(p, windAges, quantumAges, types, signs, newTypes) :
        windAges \in [1..windParticleCount -> WindInitialAges],
        quantumAges \in [1..quantumParticleCount -> QuantumInitialAges],
        types \in [1..quantumParticleCount -> {"particle"}],
        signs \in [1..quantumParticleCount -> {1}],
        newTypes \in [1..quantumParticleCount -> {"particle"}]}

\* new CompanionStar(scene, blackHoleMass) followed by setParameters(params)
DefaultThenSet(p) == {setParameters(cs, p) : cs \in ConstructedStars(<<>>)}

\* the physical parameters of a companion star
physicalParameters(cs) ==
    [mass |-> cs.mass, orbitalRadius |-> cs.orbitalRadius,
     orbitalVelocity |-> cs.orbitalVelocity,
     windVelocity |-> cs.windVelocity, windDensity |-> cs.windDensity,
     gravitationalStrength |-> cs.gravitationalStrength,
     influenceRadius |-> cs.influenceRadius]

InitConstruct ==
    /\ activeSimulation = 0
    /\ isPlaying = FALSE
    /\ params = <<>>
    /\ frame = 0
    /\ threw = FALSE
    /\ diskData = <<>>
    /\ launchedParticles = <<>>
    /\ particleTrails = <<>>
    /\ launchCounter = 0
    /\ maxAccel = Num(0)
    /\ adaptiveDt = -1
    /\ companionStar \in ConstructedStars(<<>>)
    /\ star = "null"
    /\ debris = "null"
    /\ hawkingRadiation = "null"
    /\ NoSimulation2
    /\ NoScheduler

\* new CompanionStar(scene, blackHoleMass, params); params keeps the object
\* the constructor was handed
CompanionConstruct ==
    /\ \E p \in ParamsObjects :
          /\ params' = p
          /\ companionStar' \in ConstructedStars(p)
    /\ UNCHANGED <<activeSimulation, isPlaying, frame, threw, diskData,
                   launchedParticles, particleTrails, launchCounter, maxAccel,
                   adaptiveDt, star, debris, hawkingRadiation,
                   simulation2Vars, schedulerVars>>

NextConstruct == CompanionConstruct

SpecConstruct == InitConstruct /\ [][NextConstruct]_vars

----------------------------------------------------------------------------

(* Properties of the populations *)

\* the launch numbers of the jet particles in flight, oldest first
launchedIds == [k \in 1..Len(launchedParticles) |-> launchedParticles[k].id]

\* s is the end of t
IsSuffix(s, t) ==
    /\ Len(s) <= Len(t)
    /\ s = SubSeq(t, Len(t) - Len(s) + 1, Len(t))

\* C1: after any sequence of frames the disk pool, the companion's wind pool
\* and quantum pool and the Hawking pair pool each hold as many particles as
\* the effect created: no frame adds or removes an element.
C1_PoolSizesConstant ==
    /\ activeSimulation = 1 => Len(diskData) = particleCount
    /\ activeSimulation = 3 => Len(diskData) = particleCount3
    /\ Len(companionStar.windData) = windParticleCount
    /\ Len(companionStar.quantumData) = quantumParticleCount
    /\ activeSimulation = 3 =>
          Len(hawkingRadiation.particleData) = hawkingParticleCount

\* a disk particle has been launched and reset, and a wind particle has
\* expired and respawned, since the effect ran
C1_Recycled ==
    /\ activeSimulation = 1
    /\ launchCounter > 0
    /\ \E i \in 1..Len(companionStar.windData) :
          companionStar.windData[i].age < frame

C4_RadiusAboveISCOMargin ==
    activeSimulation = 1 =>
        \A i \in 1..Len(diskData) :
            diskData[i].radius >=
                getISCO(params.blackHoleMass, params.spinParameter) - iscoMargin

\* a particle that fell below the margin, with no launch since the effect
\* ran, is back at its initial radius with its inward velocity
C4_FellInAndReset ==
    /\ activeSimulation = 1
    /\ launchCounter = 0
    /\ \E i \in 1..Len(diskData) :
          /\ diskData[i].vRadial < 0
          /\ diskData[i].radius = diskData[i].initialRadius

\* C5: a debris particle that is circularized is, after any update or
\* emission, still circularized and not in the stream.
C5_CircularizedNeverInStream ==
    [][\A i \in 1..Len(debris.particles) :
         \A j \in 1..Len(debris'.particles) :
            (/\ debris.particles[i].id = debris'.particles[j].id
             /\ debris.particles[i].circularized) =>
                /\ debris'.particles[j].circularized
                /\ ~debris'.particles[j].inStream]_vars

\* a circularized particle has been through an update after the one that
\* circularized it
C5_CircularizedAndUpdated ==
    \E i \in 1..Len(debris.particles) :
        /\ debris.particles[i].circularized
        /\ debris.particles[i].age >= 2

\* C6 (as amended): a disrupted star stops being disrupted only by being put
\* back at its start with full health (Star.reset, or a new Star when the
\* effect runs again); no update reverts the flag.
C6_DisruptedUntilReset ==
    [][(/\ activeSimulation = 3 /\ activeSimulation' = 3
        /\ star.isDisrupted /\ ~star'.isDisrupted) =>
          /\ star'.health = fullHealth
          /\ star'.position = 300]_vars

\* the star stays disrupted through the updates that follow its disruption
C6_DisruptedAndUpdated ==
    /\ activeSimulation = 3
    /\ star.isDisrupted
    /\ \E i \in 1..Len(debris.particles) : debris.particles[i].age >= 2

\* C6 as stated: once disrupted, the star is disrupted ever after.
C6_DisruptedForever ==
    [][(/\ activeSimulation = 3 /\ activeSimulation' = 3
        /\ star.isDisrupted) => star'.isDisrupted]_vars

\* C7: a frame run while Simulation1 is paused changes no simulation state.
C7_PausedFrameChangesNothing ==
    [][(activeSimulation = 1 /\ ~isPlaying /\ frame' = frame + 1) =>
          UNCHANGED <<diskData, launchedParticles, particleTrails,
                      launchCounter, companionStar, star, debris,
                      hawkingRadiation>>]_vars

\* C8: no call of animate() ends in an uncaught error.
C8_AdvanceCompletes == ~threw

\* C9: the companion never holds a configuration with a mass that is not
\* positive or an influence radius that is not a number: a call carrying one
\* is rejected.
C9_InvalidMassRejected ==
    /\ companionStar.mass > 0
    /\ companionStar.influenceRadius.tag = "num"

\* C10: whatever magnitude the first pass found, the time step computed from
\* it is at least 0.001 s and at most 0.016 s.
C10_DtWithinBounds ==
    adaptiveDt # -1 =>
        /\ minTimestep <= adaptiveDt
        /\ adaptiveDt <= baseTimestep

\* the lower clamp has decided the step of an infinite magnitude
C10_ClampedAtMinimum ==
    /\ maxAccel.tag = "Infinity"
    /\ adaptiveDt = minTimestep

\* C11: a change of a parameter while a simulation is mounted changes the
\* existing objects in place: the companion's orbital angle and pools, the
\* disk pool, the jet particles in flight and the launch counter are the same
\* right after the change as right before it.
C11_ReconfigureInPlace ==
    [][(activeSimulation \in {1, 3} /\ activeSimulation' = activeSimulation
          /\ params' # params) =>
            /\ companionStar'.angle = companionStar.angle
            /\ companionStar'.windData = companionStar.windData
            /\ companionStar'.quantumData = companionStar.quantumData
            /\ diskData' = diskData
            /\ launchedParticles' = launchedParticles
            /\ launchCounter' = launchCounter]_vars

\* C12: a star that started at radius 300 falling inward is disrupted before
\* the tick in which it is first inside the capture boundary (the event
\* horizon, radius 13): no star inside it is still intact.
C12_DisruptedBeforeCapture ==
    Abs(star.position) < eventHorizon => star.isDisrupted

\* C13: with central mass 66e9, spin 0.7 and the companion off, some disk
\* particle has undergone a capture-triggered reset by the end of the
\* MaxDriftTicks frames.
C13_CaptureResetWithinTicks ==
    (params.blackHoleMass = 66 /\ params.spinParameter = 700
        /\ frame = MaxDriftTicks)
        => \E i \in 1..Len(diskData) : diskData[i].resets > 0

\* C14: with the companion off no disk particle is ever farther out than the
\* radius it was seeded with, resets included.
C14_RadiusWithinSeed ==
    \A i \in 1..Len(diskData) :
        diskData[i].radius <= diskData[i].initialRadius

\* a particle that has been launched and reset has fallen inward again from
\* its seed radius
C14_ResetAndFallingAgain ==
    \E i \in 1..Len(diskData) :
        /\ diskData[i].resets > 0
        /\ diskData[i].radius < diskData[i].initialRadius

C16_RadiusNonNegative ==
    \A i \in 1..Len(diskData) : diskData[i].radius >= 0

\* C17: after any sequence of setParameters calls (and updates) the
\* companion's influenceRadius is the Hill radius of its current mass and
\* its current orbital radius
C17_HillRadiusCurrent ==
    companionStar.influenceRadius =
        calculateHillRadius(companionStar.mass, companionStar.orbitalRadius)

\* both the mass and the orbital radius have been changed from the values
\* the companion was constructed with, and the Hill radius is a number
C17_MassAndRadiusChanged ==
    /\ companionStar.mass = 15
    /\ companionStar.orbitalRadius = 100
    /\ companionStar.influenceRadius = Num(42)

\* C18: whenever the companion is asked for its force on a particle, the
\* gravity it returns is zero if the particle is farther than influenceRadius
\* and otherwise (gravity enabled) points toward the companion, and the wind
\* it returns is zero if the particle is farther than twice the companion's
\* radius and otherwise (wind enabled) points away from the companion
C18_ForceGatedByDistance ==
    [][CompanionGetParticleForce =>
          LET asked == diskData'[1]
              distance == Abs(asked.offset)
              outsideHill == exceeds(distance, companionStar.influenceRadius)
          IN  /\ outsideHill => asked.gravity = 0
              /\ (~outsideHill /\ companionStar.enableGravity)
                    => Sign(asked.gravity) = Sign(-asked.offset)
              /\ distance > companionStar.radius * 2 => asked.wind = 0
              /\ (distance <= companionStar.radius * 2 /\ companionStar.enableWind)
                    => Sign(asked.wind) = Sign(asked.offset)]_vars

\* C19: in every unpaused tick of Simulation1 a jet particle whose age
\* comes to exceed its maxAge leaves launchedParticles in that very tick; a
\* particle that stays is one tick older; a particle that enters was
\* launched in this tick under an id never used since the effect ran.  A
\* live particle has therefore seen exactly age unpaused ticks, at most
\* maxAge, and the tick after removes it.
C19_ExpiringQueue ==
    [][(activeSimulation = 1 /\ isPlaying /\ frame' = frame + 1) =>
          /\ \A k \in 1..Len(launchedParticles) :
                launchedParticles[k].age + 1 > launchedParticles[k].maxAge
                   => \A j \in 1..Len(launchedParticles') :
                         launchedParticles'[j].id # launchedParticles[k].id
          /\ \A j \in 1..Len(launchedParticles') :
                LET lp == launchedParticles'[j]
                IN  /\ 1 <= lp.age /\ lp.age <= lp.maxAge
                    /\ \/ \E k \in 1..Len(launchedParticles) :
                             /\ launchedParticles[k].id = lp.id
                             /\ lp.age = launchedParticles[k].age + 1
                       \/ /\ lp.age = 1
                          /\ launchCounter < lp.id
                          /\ lp.id <= launchCounter'
          /\ \A j, k \in 1..Len(launchedParticles') :
                launchedParticles'[j].id = launchedParticles'[k].id => j = k]_vars

\* the first particle launched has expired and is gone while later ones fly
C19_FirstJetExpired ==
    /\ activeSimulation = 1
    /\ isPlaying
    /\ launchCounter >= 2
    /\ launchedParticles # <<>>
    /\ \A k \in 1..Len(launchedParticles) : launchedParticles[k].id # 1

\* C20: the fieldProgress stored in every jet particle in flight lies in
\* [0, 1]
C20_FieldProgressInUnitInterval ==
    \A k \in 1..Len(launchedParticles) :
        /\ 0 <= launchedParticles[k].fieldProgress
        /\ launchedParticles[k].fieldProgress <= 1000

\* C21: a debris particle that an update turns from in-stream to
\* circularized had, at the start of that update, a radial velocity (its
\* velocity along its position) below 0.1 in magnitude and a distance from
\* the black hole above 1.5 times the ISCO
C21_CircularizesOnlyNearApocenter ==
    [][\A i \in 1..Len(debris.particles) :
         \A j \in 1..Len(debris'.particles) :
            LET p == debris.particles[i]
                q == debris'.particles[j]
            IN  (/\ p.id = q.id
                 /\ p.inStream /\ ~p.circularized
                 /\ q.circularized) =>
                    /\ Abs(p.velocity * Sign(p.position)) * 10 < 1
                    /\ Abs(p.position) > circularizeRadius]_vars

\* a particle has just been circularized by its first update, next to one
\* that was at rest as well but at distance 15 and stays in-stream
C21_OneCircularizedOneTooClose ==
    /\ \E i \in 1..Len(debris.particles) :
          /\ debris.particles[i].circularized
          /\ debris.particles[i].age = 1
    /\ \E i \in 1..Len(debris.particles) :
          /\ debris.particles[i].inStream
          /\ debris.particles[i].age = 1
          /\ debris.particles[i].velocity = -gravityDv(15, 16)

\* C22: an update never leaves a circularized debris particle farther from
\* the black hole than it found it
C22_CircularizedRadiusNeverGrows ==
    [][\A i \in 1..Len(debris.particles) :
         \A j \in 1..Len(debris'.particles) :
            (/\ debris.particles[i].id = debris'.particles[j].id
             /\ debris.particles[i].circularized) =>
                debris'.particles[j].radius <= debris.particles[i].radius]_vars

C24_TypeAgreesWithVelocity ==
    /\ \A i \in 1..Len(hawkingRadiation.particleData) :
          hawkingRadiation.particleData[i].velocity
              = radialVelocityOf(hawkingRadiation.particleData[i].type)
    /\ \A i \in 1..Len(companionStar.quantumData) :
          companionStar.quantumData[i].velocity
              = radialVelocityOf(companionStar.quantumData[i].type)

\* C25: after any sequence of Star.update and Star.reset calls the star is
\* disrupted exactly if its health is below the disruption threshold 0.3
C25_DisruptedIffLowHealth ==
    activeSimulation = 3 =>
        (star.isDisrupted <=> star.health < disruptHealth)

\* the star's health has gone below the threshold, the star is disrupted
\* and has been updated again since: its health stays where it was
C25_LowHealthAndDisrupted ==
    /\ activeSimulation = 3
    /\ star.isDisrupted
    /\ star.health < disruptHealth
    /\ star.health + tidalRadius >= disruptHealth
    /\ \E i \in 1..Len(debris.particles) : debris.particles[i].age >= 2

\* C26: an update that leaves an in-stream debris particle in-stream moves
\* it from where it was by its updated velocity times deltaTime: the
\* circularization test does not move the particle.
C26_TestLeavesPositionAlone ==
    [][\A i \in 1..Len(debris.particles) :
         \A j \in 1..Len(debris'.particles) :
            LET p == debris.particles[i]
                q == debris'.particles[j]
            IN  (/\ p.id = q.id
                 /\ q.age = p.age + 1
                 /\ p.inStream /\ q.inStream) =>
                    \E deltaTime \in DeltaTimes :
                        q.position = p.position
                                       + MulDiv(q.velocity, deltaTime, 1000)]_vars


\* C27: after any sequence of generateDebrisFromStar, update and clear calls
\* the stored particleCount is the length of the particle list.
C27_CountIsListLength ==
    debris.particleCount = Len(debris.particles)

\* an update has removed some particles of the stream and kept others: a
\* particle is left whose number exceeds the number of particles
C27_SomeRemovedSomeKept ==
    /\ debris.particleCount > 0
    /\ \E i \in 1..Len(debris.particles) :
          /\ debris.particles[i].id > Len(debris.particles)
          /\ debris.particles[i].age > 0


\* C28: when resetSimulation is invoked while Simulation2 is playing, the
\* jet-particle and trail arrays the following ticks advance are empty and
\* the accreted and launched counters those ticks report are zero.
C28_ResetClearsWhatTicksAdvance ==
    [][(isPlaying /\ ResetSimulation) =>
          /\ jetParticles' = <<>>
          /\ accretionTrails' = <<>>
          /\ particlesAccreted' = 0
          /\ jetsLaunched' = 0]_vars


\* C29: after any sequence of parameter changes, pause toggles and effect
\* re-runs at most one call of animate() is pending, so each population is
\* advanced at most once per rendered frame.
C29_AtMostOneLoopScheduled ==
    Cardinality(scheduled) <= 1


\* C30: a CompanionStar constructed with a params object has the physical
\* parameter values (mass, orbital radius, orbital velocity, wind velocity,
\* wind density, gravitational strength, influence radius) of one constructed
\* with defaults and then handed the object through setParameters, whatever
\* the object holds, values 0 included.
C30_ConstructorAgreesWithSetParameters ==
    \A configured \in DefaultThenSet(params) :
        physicalParameters(companionStar) = physicalParameters(configured)

====
